---------------------------- MODULE Spec2Model ----------------------------
(***************************************************************************)
(* A model of the sampling / batching / sharding layer of the contrastive  *)
(* lighting dataset utilities:                                             *)
(*   src/concurrent_tasks_helper.py      ConcurrentTasksHelper             *)
(*   src/data/image_image_task.py        render generator, data loader     *)
(*   src/data/image_text_instructions_task.py                              *)
(*   src/data/temp_payload.py            temporary_payload_file            *)
(*   src/data/signature_vector/*.py      attributes, factory               *)
(*   src/blender_manager.py              BlenderManager                    *)
(*                                                                         *)
(* Strings that the code takes apart (scene file names) are sequences of   *)
(* tokens; an optional value (a task or None) is a sequence of length at   *)
(* most one.                                                               *)
(***************************************************************************)
EXTENDS Integers, Sequences, FiniteSets, TLC

(***************************************************************************)
(* Bounds of the model.                                                    *)
(***************************************************************************)
\* longest task list handed to a ConcurrentTasksHelper
MaxTasks == 3
\* largest total_workers / shard_count
MaxShards == 2
\* calls of get_next_task a worker makes after the first None
ExtraCalls == 1
\* largest seed handed to random.Random
MaxSeed == 2
\* most variant slots / invariant slots of a factory specification
MaxVariantSlots == 1
MaxInvariantSlots == 2
\* calls of sample_signature_vector per factory
MaxSamples == 2
\* largest batch_size asked of get_batch_of_signature_vectors, and calls made
MaxBatchSize == 2
MaxBatchCalls == 2
\* most pairs of a batch handed to the data loader
MaxPairs == 1
\* most data-loader calls a worker makes, one after the other
MaxLoaderCalls == 2
\* most rows one process appends to the shared file
MaxRows == 2
\* largest number in a SLURM_ARRAY_TASK_* variable, and in a shard flag
MaxEnvInt == 2
MaxFlag == 2
\* largest weight in a weights mapping, and samples drawn from one enum
MaxWeight == 2
MaxEnumSamples == 3
\* most lines a child process writes, and lines a pipe buffer holds
MaxLines == 3
PipeCap == 1

(***************************************************************************)
(* Python values.                                                          *)
(***************************************************************************)
None == <<>>
Some(x) == <<x>>

\* Python truthiness of an optional string: None and "" are falsy.
Truthy(opt) == opt # None /\ opt[1] # <<>>

Range(s) == {s[k] : k \in 1..Len(s)}

Count(s, x) == Cardinality({k \in 1..Len(s) : s[k] = x})

\* all sequences over S of length at most n
SeqsUpTo(S, n) == UNION {[1..k -> S] : k \in 0..n}

VARIABLES
  \* hashlib.sha256(task_id).hexdigest() read as an integer, for every task id
  digest,
  \* ---- ConcurrentTasksHelper objects, one per worker id, over one task list
  list_of_all_tasks,
  completed_tasks,
  total_workers,
  \* helper_i[w] is self.i of worker w's helper
  helper_i,
  \* returned[w]: what get_next_task returned to worker w, call by call
  returned,
  \* yieldedAt[w]: the list positions of the tasks returned to worker w
  yieldedAt,
  \* ---- asset stores: the listings of the scene and the HDRI directories
  available_scenes,
  available_hdris,
  \* ---- random.Random objects: rng[r] is the state of generator r
  rng,
  \* ---- SignatureVectorFactory objects
  \* the (attribute type, is_free) tuples both factories are built from
  variant_attributes_and_freedom,
  invariant_attributes_and_freedom,
  \* factory[f]: the fields of factory f, or its construction error
  factory,
  \* produced[f]: the outcome of every sample_signature_vector call on f
  produced,
  \* ---- ImageImageDataLoader.get_batch_of_signature_vectors calls:
  \* batch size and outcome of every call, in order
  batch_calls,
  \* ---- the filesystem
  \* the output image files that exist under DATA_PATH/renders
  fs,
  \* the names of the files in OUTDOOR_SCENES_DIR
  scenes_dir,
  \* tmp_files[name]: every temporary file that exists, with its state
  tmp_files,
  \* ---- the worker processes
  \* request[w]: the arguments the caller of worker w passes to its calls
  request,
  \* loader[w]: the frame of the data-loader call worker w is in
  loader,
  \* render[w]: the frame of the render call worker w is in
  render,
  \* ---- history
  \* every subprocess the workers asked for, in order
  invocations,
  \* finished[w]: the outcome of every top-level call of worker w, in order
  finished,
  \* ---- the file that locked_open appends to, and its writers
  \* what the file holds, piece by piece, in the order it was written
  file_data,
  \* how many pieces of the file os.fsync has made durable
  durable,
  \* the processes that hold the exclusive flock on the file
  flock_held,
  \* writer[p]: the frame of the append call process p is in, and its history
  writer,
  \* ---- shard selection at start-up
  \* os.environ, restricted to the SLURM_ARRAY_TASK_* variables
  environ,
  \* the parsed command line (shard_index, shard_count)
  cli_args,
  \* the outcome of every call of choose_shard / get_slurm_shard_from_env
  shard_calls,
  \* ---- EnumAttribute._weighted_sample
  \* list(cls), the weights mapping, and the outcome of every call
  members,
  weights,
  sampled,
  \* ---- BlenderManager.open_blender_file_with_args
  \* the frame of the call, the child process, its two pipes and the two
  \* threads that drain them
  blender

varsShard == <<list_of_all_tasks, completed_tasks, total_workers, helper_i,
               returned, yieldedAt>>

varsSample == <<available_scenes, available_hdris, rng,
                variant_attributes_and_freedom, invariant_attributes_and_freedom,
                factory, produced, batch_calls>>

varsRender == <<fs, scenes_dir, tmp_files, request, loader, render,
                invocations, finished>>

varsLock == <<file_data, durable, flock_held, writer>>

varsShell == <<environ, cli_args, shard_calls>>

varsEnum == <<members, weights, sampled>>

varsDrain == <<blender>>

vars == <<digest, varsShard, varsSample, varsRender, varsLock, varsShell,
          varsEnum, varsDrain>>

(***************************************************************************)
(* ConcurrentTasksHelper (src/concurrent_tasks_helper.py)                  *)
(***************************************************************************)
\* a hash that is not the same in every process: salted with the worker id
in_shard_salted(task_id, shard_idx, shard_cnt) ==
  IF shard_cnt <= 1 THEN TRUE
  ELSE ((digest[task_id] + shard_idx) % shard_cnt) = shard_idx

in_shard(task_id, shard_idx, shard_cnt) ==
  IF shard_cnt <= 1 THEN TRUE
  ELSE (digest[task_id] % shard_cnt) = shard_idx

\* the while loop of get_next_task from cursor i: the new cursor and the
\* value returned
RECURSIVE get_next_task_loop(_, _, _, _, _)
get_next_task_loop(i, tasks, completed, my_worker_id, workers) ==
  IF i < Len(tasks)
  THEN LET task == tasks[i + 1]
       IN IF task \in completed
          THEN get_next_task_loop(i + 1, tasks, completed, my_worker_id, workers)
          ELSE IF in_shard(task, my_worker_id, workers)
               THEN [i |-> i + 1, task |-> Some(task)]
               ELSE get_next_task_loop(i + 1, tasks, completed, my_worker_id, workers)
  ELSE [i |-> i, task |-> None]

\* get_next_task without the completed-set test
RECURSIVE get_next_task_no_completed(_, _, _, _, _)
get_next_task_no_completed(i, tasks, completed, my_worker_id, workers) ==
  IF i < Len(tasks)
  THEN LET task == tasks[i + 1]
       IN IF in_shard(task, my_worker_id, workers)
          THEN [i |-> i + 1, task |-> Some(task)]
          ELSE get_next_task_no_completed(i + 1, tasks, completed, my_worker_id, workers)
  ELSE [i |-> i, task |-> None]

\* get_next_task that shards by the position in the list instead of the
\* hash of the task id
RECURSIVE get_next_task_by_position(_, _, _, _, _)
get_next_task_by_position(i, tasks, completed, my_worker_id, workers) ==
  IF i < Len(tasks)
  THEN LET task == tasks[i + 1]
       IN IF task \in completed
          THEN get_next_task_by_position(i + 1, tasks, completed,
                                         my_worker_id, workers)
          ELSE IF workers <= 1 \/ i % workers = my_worker_id
               THEN [i |-> i + 1, task |-> Some(task)]
               ELSE get_next_task_by_position(i + 1, tasks, completed,
                                              my_worker_id, workers)
  ELSE [i |-> i, task |-> None]

get_next_task(i, tasks, completed, my_worker_id, workers) ==
  get_next_task_loop(i, tasks, completed, my_worker_id, workers)

(***************************************************************************)
(* random.Random: a deterministic generator.  Its state after seeding is   *)
(* a function of the seed, every draw steps the state, and the value drawn *)
(* is a function of the stepped state (the Mersenne Twister is abstracted  *)
(* to a full-period congruential generator on sixteen states).             *)
(***************************************************************************)
RngSeeded(seed) == (7 * seed + 1) % 16

RngStep(st) == (5 * st + 3) % 16

\* Random._randbelow(n), n > 0
randbelow(st, n) == [value |-> (RngStep(st) * n) \div 16, state |-> RngStep(st)]

\* Random.choice(seq) of a non-empty seq
rng_choice(st, seq) ==
  LET r == randbelow(st, Len(seq))
  IN [value |-> seq[r.value + 1], state |-> r.state]

\* Random.randint(a, b)
rng_randint(st, a, b) ==
  LET r == randbelow(st, b - a + 1)
  IN [value |-> a + r.value, state |-> r.state]

\* Random.sample(population, k), 0 <= k <= len(population): the pool loop
\*   j = randbelow(n - i); result[i] = pool[j]; pool[j] = pool[n - i - 1]
RECURSIVE rng_sample_loop(_, _, _, _, _)
rng_sample_loop(st, pool, n, i, k) ==
  IF i >= k THEN [value |-> <<>>, state |-> st]
  ELSE LET r == randbelow(st, n - i)
           j == r.value + 1
           rest == rng_sample_loop(r.state, [pool EXCEPT ![j] = pool[n - i]],
                                   n, i + 1, k)
       IN [value |-> <<pool[j]>> \o rest.value, state |-> rest.state]

rng_sample(st, population, k) ==
  rng_sample_loop(st, population, Len(population), 0, k)

(***************************************************************************)
(* Attributes (src/data/signature_vector/*.py).  A sampling call gives     *)
(* [ok |-> TRUE, value, state] or [ok |-> FALSE, error, state], state      *)
(* being the generator's state after the call.                             *)
(***************************************************************************)
\* rng.randint(0, int(1e6)) of CameraSeed / ContentSeed
MaxCameraSeed == 1000000
\* rng.randint(0, 360) of the HDRI rotation offset
MaxRotationOffset == 360

AttributeTypes == {"SceneID", "CameraSeed", "VirtualLight"}

\* the None placeholder a factory stores for a free slot
NoAttribute == [type |-> "None"]

Raise(error, st) == [ok |-> FALSE, error |-> error, state |-> st]

\* SceneID.sample_value(rng)
SceneID_sample_value(st) ==
  IF available_scenes = <<>> THEN Raise("IndexError", st)
  ELSE LET r == rng_choice(st, available_scenes)
       IN [ok |-> TRUE, value |-> [type |-> "SceneID", scene_id |-> r.value],
           state |-> r.state]

\* CameraSeed.sample_value(rng)
CameraSeed_sample_value(st) ==
  LET r == rng_randint(st, 0, MaxCameraSeed)
  IN [ok |-> TRUE, value |-> [type |-> "CameraSeed", seed |-> r.value],
      state |-> r.state]

\* VirtualLight.sample_value(rng): its first step, LightSize.sample_value(rng),
\* calls EnumAttribute.sample_value, which is not a classmethod, with rng in
\* the place of cls and nothing for rng: TypeError before any draw.
VirtualLight_sample_value(st) == Raise("TypeError", st)

sample_value(attr_type, st) ==
  CASE attr_type = "SceneID" -> SceneID_sample_value(st)
    [] attr_type = "CameraSeed" -> CameraSeed_sample_value(st)
    [] attr_type = "VirtualLight" -> VirtualLight_sample_value(st)

\* HDRIName(name=..., z_rotation_offset_from_camera=...): HDRIName inherits
\* the abstract method Attribute.sample_value and defines none, so the class
\* is abstract and instantiating it raises TypeError.
HDRIName(name, z_rotation_offset_from_camera) ==
  [ok |-> FALSE, error |-> "TypeError"]

(***************************************************************************)
(* SignatureVectorFactory (src/data/signature_vector/signature_vector.py)  *)
(***************************************************************************)
Factories == {"f1", "f2"}

\* both factories handed one and the same generator object
RngOfShared(f) == "r1"

\* the generator object a factory is handed: each its own
RngOf(f) == IF f = "f1" THEN "r1" ELSE "r2"

\* the generator of a factory built without the rng argument: the default
\* value random.Random(0), one object made when the def statement ran
RngDefault(f) == "default"

\* init_slots that samples nothing at construction: a fixed slot is kept
\* like a free one and sampled at every call
RECURSIVE init_slots_lazy(_, _, _)
init_slots_lazy(slots, k, acc) ==
  IF k > Len(slots) THEN acc
  ELSE init_slots_lazy(slots, k + 1,
         [acc EXCEPT !.fixed = Append(@, NoAttribute),
                     !.free_indices = Append(@, k - 1),
                     !.free_classes = Append(@, slots[k][1])])

\* one of the two loops of __init__ over (attr_type, is_free), from slot k on.
\* acc: [fixed, free_indices, free_classes, state, error]
RECURSIVE init_slots(_, _, _)
init_slots(slots, k, acc) ==
  IF k > Len(slots) \/ acc.error # None THEN acc
  ELSE LET attr_type == slots[k][1]
           is_free == slots[k][2]
       IN IF ~is_free
          THEN LET r == sample_value(attr_type, acc.state)
               IN IF r.ok
                  THEN init_slots(slots, k + 1,
                         [acc EXCEPT !.fixed = Append(@, r.value),
                                     !.state = r.state])
                  ELSE [acc EXCEPT !.error = Some(r.error), !.state = r.state]
          ELSE init_slots(slots, k + 1,
                 [acc EXCEPT !.fixed = Append(@, NoAttribute),
                             !.free_indices = Append(@, k - 1),
                             !.free_classes = Append(@, attr_type)])

EmptySlots(st) ==
  [fixed |-> <<>>, free_indices |-> <<>>, free_classes |-> <<>>,
   state |-> st, error |-> None]

\* one of the two loops of sample_signature_vector, from the n-th free index:
\*   for i in self.free_..._indices:
\*       attributes[i] = self.free_..._classes[i].sample_value(self.rng)
\* free_classes is indexed with the slot index i, not with n.
\* acc: [attributes, state, error]
RECURSIVE resample_slots(_, _, _, _)
resample_slots(free_indices, free_classes, n, acc) ==
  IF n > Len(free_indices) \/ acc.error # None THEN acc
  ELSE LET i == free_indices[n]
       IN IF i >= Len(free_classes)
          THEN [acc EXCEPT !.error = Some("IndexError")]
          ELSE LET r == sample_value(free_classes[i + 1], acc.state)
               IN IF r.ok
                  THEN resample_slots(free_indices, free_classes, n + 1,
                         [acc EXCEPT !.attributes[i + 1] = r.value,
                                     !.state = r.state])
                  ELSE [acc EXCEPT !.error = Some(r.error), !.state = r.state]

(***************************************************************************)
(* ImageImageDataLoader.get_batch_of_signature_vectors                     *)
(* (src/data/image_image_task.py).  The outcome of a call:                 *)
(* [raised |-> FALSE, batch, state] or [raised |-> TRUE, error, state].    *)
(***************************************************************************)
BatchRaise(error, st) == [raised |-> TRUE, error |-> error, state |-> st]

\* [self.rng.randint(0, 360) for _ in range(batch_size)]
RECURSIVE sample_rotations(_, _)
sample_rotations(st, n) ==
  IF n = 0 THEN [value |-> <<>>, state |-> st]
  ELSE LET r == rng_randint(st, 0, MaxRotationOffset)
           rest == sample_rotations(r.state, n - 1)
       IN [value |-> <<r.value>> \o rest.value, state |-> rest.state]

ImageImageSignatureVector(variant, invariant) ==
  [variant_attributes |-> variant, invariant_attributes |-> invariant]

\* the loop `for i in range(batch_size)` from item i on; picked holds the
\* scenes and camera seeds selected for the left and the right side
RECURSIVE build_batch(_, _, _, _, _)
build_batch(i, batch_size, hdris, rotations, picked) ==
  IF i > batch_size THEN [raised |-> FALSE, batch |-> <<>>]
  ELSE LET hdri_attribute == HDRIName(hdris[i], rotations[i])
       IN IF ~hdri_attribute.ok
          THEN [raised |-> TRUE, error |-> hdri_attribute.error]
          ELSE LET left == ImageImageSignatureVector(
                             <<hdri_attribute.value>>,
                             <<[type |-> "SceneID",
                                scene_id |-> picked.selected_scene_left],
                               [type |-> "CameraSeed",
                                seed |-> picked.camera_seed_left]>>)
                   right == ImageImageSignatureVector(
                             <<hdri_attribute.value>>,
                             <<[type |-> "SceneID",
                                scene_id |-> picked.selected_scene_right],
                               [type |-> "CameraSeed",
                                seed |-> picked.camera_seed_right]>>)
                   rest == build_batch(i + 1, batch_size, hdris, rotations,
                                       picked)
               IN IF rest.raised THEN rest
                  ELSE [raised |-> FALSE,
                        batch |-> <<<<left, right>>>> \o rest.batch]

get_batch_of_signature_vectors(st, batch_size) ==
  IF batch_size < 0 \/ batch_size > Len(available_hdris)
  THEN BatchRaise("ValueError", st)
  ELSE LET selection_of_hdris == rng_sample(st, available_hdris, batch_size)
           rotations == sample_rotations(selection_of_hdris.state, batch_size)
       IN IF available_scenes = <<>>
          THEN BatchRaise("IndexError", rotations.state)
          ELSE LET selected_scene_left ==
                     rng_choice(rotations.state, available_scenes)
                   selected_scene_right ==
                     rng_choice(selected_scene_left.state, available_scenes)
                   camera_seed_left ==
                     rng_randint(selected_scene_right.state, 0, MaxCameraSeed)
                   camera_seed_right ==
                     rng_randint(camera_seed_left.state, 0, MaxCameraSeed)
                   built == build_batch(1, batch_size,
                              selection_of_hdris.value, rotations.value,
                              [selected_scene_left |-> selected_scene_left.value,
                               selected_scene_right |-> selected_scene_right.value,
                               camera_seed_left |-> camera_seed_left.value,
                               camera_seed_right |-> camera_seed_right.value])
               IN IF built.raised
                  THEN BatchRaise(built.error, camera_seed_right.state)
                  ELSE [raised |-> FALSE, batch |-> built.batch,
                        state |-> camera_seed_right.state]

(***************************************************************************)
(* ImageImageSignatureVector (src/data/image_image_task.py): the getters   *)
(* and the output path.  A path is the sequence of its components, a file  *)
(* name the sequence of the pieces its f-string is formatted from.         *)
(***************************************************************************)
DATA_PATH == "data"

\* an object with the two fields the getters read from variant slot 0
HdriAttribute(name, z_rotation_offset_from_camera) ==
  [type |-> "HDRIName", name |-> name,
   z_rotation_offset_from_camera |-> z_rotation_offset_from_camera]

get_hdri_name(sv) == sv.variant_attributes[1].name

get_camera_seed(sv) == sv.invariant_attributes[2].seed

\* scene_id.replace('.blend', '')
get_scene_id(sv) ==
  SelectSeq(sv.invariant_attributes[1].scene_id, LAMBDA t : t # ".blend")

get_hdri_rotation(sv) == sv.variant_attributes[1].z_rotation_offset_from_camera

\* a path that counts the subprocesses run so far into the file name
to_path_path_counted(self) ==
  <<DATA_PATH, "renders", get_hdri_name(self),
    <<"hdri-offset_", get_hdri_rotation(self) + Len(invocations), "_camera_",
      get_camera_seed(self), "_">> \o get_scene_id(self) \o <<".png">> >>

\* the path expression of ImageImageSignatureVector.to_path
to_path_path(self) ==
  LET base_data_path == <<DATA_PATH, "renders">>
  IN base_data_path \o
     <<get_hdri_name(self),
       <<"hdri-offset_", get_hdri_rotation(self), "_camera_",
         get_camera_seed(self), "_">> \o get_scene_id(self) \o <<".png">> >>

\* the closure compute_path of get_batch_of_images_given_signature_vectors
compute_path(sv) ==
  LET base_data_path == <<DATA_PATH, "renders">>
  IN base_data_path \o
     <<sv.variant_attributes[1].name,
       <<"hdri-offset_", sv.variant_attributes[1].z_rotation_offset_from_camera,
         "_camera_", sv.invariant_attributes[2].seed, "_">>
       \o get_scene_id(sv) \o <<".png">> >>

\* SceneData.get_scene_path_by_id on OUTDOOR_SCENES_DIR
get_scene_path_by_id(scene_id) ==
  LET file == IF scene_id # <<>> /\ scene_id[Len(scene_id)] = ".blend"
              THEN scene_id ELSE scene_id \o <<".blend">>
  IN IF file \in scenes_dir
     THEN [ok |-> TRUE, value |-> <<"scenes">> \o file]
     ELSE [ok |-> FALSE, error |-> "ValueError"]

(***************************************************************************)
(* The frame of a render call: one of                                      *)
(*   ImageImageRenderGenerator.do_render, .do_render_batch_for_scene       *)
(*   ImageTextInstructRenderGenerator.do_render                            *)
(*   BlenderManager.open_blender_file_with_args                            *)
(* pc is the statement the call is at; payloads is the stack of the        *)
(* temporary_payload_file context managers it is inside of; pending is the *)
(* exception that is propagating; outcome is set once the call is over.    *)
(***************************************************************************)
NoRender ==
  [kind |-> "none", pc |-> "done", check |-> FALSE,
   signature_vectors |-> <<>>, output_paths |-> <<>>, needed |-> 0,
   payloads |-> <<>>, created |-> <<>>, invocation |-> 0, written |-> 0,
   exit_code |-> None, pending |-> None, outcome |-> None]

RenderFrame(kind, check, signature_vectors, output_paths, needed) ==
  [NoRender EXCEPT !.kind = kind, !.check = check,
                   !.pc = IF needed > 0 THEN "mkstemp" ELSE "spawn",
                   !.signature_vectors = signature_vectors,
                   !.output_paths = output_paths, !.needed = needed]

Returned(frame, value) ==
  [frame EXCEPT !.pc = "done",
                !.outcome = Some([raised |-> FALSE, value |-> value])]

Raised(frame, error) ==
  [frame EXCEPT !.pc = "done",
                !.outcome = Some([raised |-> TRUE, error |-> error])]

\* what the call returns when nothing is raised
return_value(frame) ==
  CASE frame.kind = "do_render" -> frame.output_paths[1]
    [] frame.kind = "do_render_batch_for_scene" -> frame.output_paths
    [] frame.kind = "ImageTextInstruct_do_render" -> frame.output_paths[1]
    [] frame.kind = "open_blender_file_with_args" -> frame.exit_code[1]

\* leaving the with statement without a finally clause: an exception skips
\* the removal of the payload files
Unwind_no_finally(frame) ==
  IF frame.pending # None THEN Raised(frame, frame.pending[1])
  ELSE IF frame.payloads # <<>> THEN [frame EXCEPT !.pc = "cleanup"]
  ELSE Returned(frame, return_value(frame))

\* leaving the with statement: the innermost payload file is removed next;
\* outside of every with block the call raises what is pending, or returns
Unwind(frame) ==
  IF frame.payloads # <<>> THEN [frame EXCEPT !.pc = "cleanup"]
  ELSE IF frame.pending # None THEN Raised(frame, frame.pending[1])
  ELSE Returned(frame, return_value(frame))

\* do_render up to its with statement
do_render(signature_vector, output_path) ==
  LET scene_path == get_scene_path_by_id(get_scene_id(signature_vector))
      frame == RenderFrame("do_render", TRUE, <<signature_vector>>,
                           <<output_path>>, 1)
  IN IF ~scene_path.ok THEN Raised(frame, scene_path.error) ELSE frame

\* do_render_batch_for_scene without the two validations
do_render_batch_for_scene_unchecked(signature_vectors, output_paths) ==
  LET frame == RenderFrame("do_render_batch_for_scene", TRUE,
                           signature_vectors, output_paths, 2)
  IN IF signature_vectors = <<>> THEN Returned(frame, <<>>)
     ELSE IF ~get_scene_path_by_id(get_scene_id(signature_vectors[1])).ok
     THEN Raised(frame, "ValueError")
     ELSE frame

\* do_render_batch_for_scene up to its with statement
do_render_batch_for_scene(signature_vectors, output_paths) ==
  LET frame == RenderFrame("do_render_batch_for_scene", TRUE,
                           signature_vectors, output_paths, 2)
  IN IF signature_vectors = <<>> THEN Returned(frame, <<>>)
     ELSE LET scene_id == get_scene_id(signature_vectors[1])
          IN IF \E k \in 1..Len(signature_vectors) :
                   get_scene_id(signature_vectors[k]) # scene_id
             THEN Raised(frame, "ValueError")
             ELSE IF Len(signature_vectors) # Len(output_paths)
             THEN Raised(frame, "ValueError")
             ELSE IF ~get_scene_path_by_id(scene_id).ok
             THEN Raised(frame, "ValueError")
             ELSE frame

\* ImageTextInstructRenderGenerator.do_render up to subprocess.run
ImageTextInstruct_do_render(signature_vector, output_path) ==
  LET scene_path ==
        get_scene_path_by_id(signature_vector.invariant_attributes[1].scene_id)
      frame == RenderFrame("ImageTextInstruct_do_render", FALSE,
                           <<signature_vector>>, <<output_path>>, 0)
  IN IF ~scene_path.ok THEN Raised(frame, scene_path.error) ELSE frame

\* BlenderManager.open_blender_file_with_args up to subprocess.Popen
open_blender_file_with_args(file_path) ==
  RenderFrame("open_blender_file_with_args", FALSE, <<>>, <<>>, 0)

(***************************************************************************)
(* The steps of a render call of worker w.                                 *)
(***************************************************************************)
RenderStepUnchanged ==
  UNCHANGED <<digest, varsDrain, varsLock, varsShell, varsEnum, varsShard,
              varsSample, scenes_dir, request, loader, finished>>

\* the file the innermost temporary_payload_file holds
Top(frame) == frame.payloads[Len(frame.payloads)]

\* the name tempfile.mkstemp picks: one that no existing file has
fresh_name ==
  LET free == {n \in 1..(Cardinality(DOMAIN tmp_files) + 1) :
                 <<"render_payload_", n, ".bin">> \notin DOMAIN tmp_files}
  IN <<"render_payload_", CHOOSE n \in free : \A m \in free : n <= m, ".bin">>

\* tempfile.mkstemp: a new, empty file
Mkstemp(w) ==
  /\ render[w].pc = "mkstemp"
  /\ LET path == fresh_name
     IN /\ tmp_files' = [n \in DOMAIN tmp_files \cup {path} |->
                           IF n = path THEN [open |-> TRUE, written |-> FALSE]
                           ELSE tmp_files[n]]
        /\ render' = [render EXCEPT ![w].pc = "write",
                                    ![w].payloads = Append(@, path),
                                    ![w].created = Append(@, path)]
  /\ UNCHANGED <<fs, invocations>>
  /\ RenderStepUnchanged

\* tempfile.mkstemp raises: no file is made
MkstempFails(w) ==
  /\ render[w].pc = "mkstemp"
  /\ render' = [render EXCEPT ![w] =
                  Unwind([render[w] EXCEPT !.pending = Some("OSError")])]
  /\ UNCHANGED <<fs, tmp_files, invocations>>
  /\ RenderStepUnchanged

\* with os.fdopen(fd, "wb") as tmp: tmp.write(payload), then the yield
WritePayload(w) ==
  /\ render[w].pc = "write"
  /\ tmp_files' = [tmp_files EXCEPT ![Top(render[w])] =
                     [open |-> FALSE, written |-> TRUE]]
  /\ render' = [render EXCEPT ![w].pc =
                  IF Len(render[w].payloads) < render[w].needed
                  THEN "mkstemp" ELSE "spawn"]
  /\ UNCHANGED <<fs, invocations>>
  /\ RenderStepUnchanged

\* tmp.write raises: the with block closes the file, the finally clause of
\* temporary_payload_file runs next
WritePayloadFails(w) ==
  /\ render[w].pc = "write"
  /\ tmp_files' = [tmp_files EXCEPT ![Top(render[w])] =
                     [open |-> FALSE, written |-> FALSE]]
  /\ render' = [render EXCEPT ![w] =
                  Unwind([render[w] EXCEPT !.pending = Some("OSError")])]
  /\ UNCHANGED <<fs, invocations>>
  /\ RenderStepUnchanged

\* the record of a subprocess the worker asks for
Invocation(w, frame, spawned) ==
  [worker |-> w, call |-> Len(finished[w]) + 1, kind |-> frame.kind,
   signature_vectors |-> frame.signature_vectors,
   output_paths |-> frame.output_paths, spawned |-> spawned,
   exit_code |-> None]

\* subprocess.run / subprocess.Popen starts the backend
Spawn(w) ==
  /\ render[w].pc = "spawn"
  /\ invocations' = Append(invocations, Invocation(w, render[w], TRUE))
  /\ render' = [render EXCEPT ![w].pc = "running",
                              ![w].invocation = Len(invocations) + 1]
  /\ UNCHANGED <<fs, tmp_files>>
  /\ RenderStepUnchanged

\* the backend cannot be started
SpawnFails(w) ==
  /\ render[w].pc = "spawn"
  /\ invocations' = Append(invocations, Invocation(w, render[w], FALSE))
  /\ render' = [render EXCEPT ![w] =
                  Unwind([render[w] EXCEPT !.pending = Some("OSError")])]
  /\ UNCHANGED <<fs, tmp_files>>
  /\ RenderStepUnchanged

\* BackendWrite with a backend that does not overwrite: it exits with a
\* non-zero code when the file it is to write is there already
BackendWrite_no_overwrite(w) ==
  /\ render[w].pc = "running"
  /\ render[w].written < Len(render[w].output_paths)
  /\ IF render[w].output_paths[render[w].written + 1] \in fs
     THEN /\ invocations' = [invocations EXCEPT
                               ![render[w].invocation].exit_code = Some(1)]
          /\ render' = [render EXCEPT ![w] =
                          Unwind([render[w] EXCEPT
                                    !.exit_code = Some(1),
                                    !.pending = IF render[w].check
                                                THEN Some("CalledProcessError")
                                                ELSE None])]
          /\ UNCHANGED <<fs, tmp_files>>
     ELSE /\ fs' = fs \cup {render[w].output_paths[render[w].written + 1]}
          /\ render' = [render EXCEPT ![w].written = @ + 1]
          /\ UNCHANGED <<tmp_files, invocations>>
  /\ RenderStepUnchanged

\* the backend renders the next image it was asked for, in the order of the
\* list, and writes it to its output path
BackendWrite(w) ==
  /\ render[w].pc = "running"
  /\ render[w].written < Len(render[w].output_paths)
  /\ fs' = fs \cup {render[w].output_paths[render[w].written + 1]}
  /\ render' = [render EXCEPT ![w].written = @ + 1]
  /\ UNCHANGED <<tmp_files, invocations>>
  /\ RenderStepUnchanged

\* the backend exits with code 0, having written every image asked for
BackendExitZero(w) ==
  /\ render[w].pc = "running"
  /\ render[w].written = Len(render[w].output_paths)
  /\ invocations' = [invocations EXCEPT ![render[w].invocation].exit_code =
                       Some(0)]
  /\ render' = [render EXCEPT ![w] =
                  Unwind([render[w] EXCEPT !.exit_code = Some(0)])]
  /\ UNCHANGED <<fs, tmp_files>>
  /\ RenderStepUnchanged

\* the backend exits with a non-zero code; check=True makes subprocess.run
\* raise CalledProcessError
BackendExitNonZero(w) ==
  /\ render[w].pc = "running"
  /\ invocations' = [invocations EXCEPT ![render[w].invocation].exit_code =
                       Some(1)]
  /\ render' = [render EXCEPT ![w] =
                  Unwind([render[w] EXCEPT
                            !.exit_code = Some(1),
                            !.pending = IF render[w].check
                                        THEN Some("CalledProcessError")
                                        ELSE None])]
  /\ UNCHANGED <<fs, tmp_files>>
  /\ RenderStepUnchanged

\* the finally clause of the innermost temporary_payload_file: os.remove
RemovePayload(w) ==
  /\ render[w].pc = "cleanup"
  /\ LET path == Top(render[w])
     IN /\ tmp_files' = [n \in DOMAIN tmp_files \ {path} |-> tmp_files[n]]
        /\ render' = [render EXCEPT ![w] =
                        Unwind([render[w] EXCEPT !.payloads =
                                  SubSeq(@, 1, Len(@) - 1)])]
  /\ UNCHANGED <<fs, invocations>>
  /\ RenderStepUnchanged

(***************************************************************************)
(* Python dicts and lists.  A dict is the sequence of its items in         *)
(* insertion order.                                                        *)
(***************************************************************************)
dict_keys(d) == [k \in 1..Len(d) |-> d[k].key]

dict_get(d, key) == d[CHOOSE k \in 1..Len(d) : d[k].key = key].value

\* d.setdefault(key, []).append(x)
setdefault_append(d, key, x) ==
  IF \E k \in 1..Len(d) : d[k].key = key
  THEN [k \in 1..Len(d) |->
          IF d[k].key = key
          THEN [key |-> key, value |-> Append(d[k].value, x)] ELSE d[k]]
  ELSE Append(d, [key |-> key, value |-> <<x>>])

\* the lists of the values of d, one after the other
RECURSIVE extend_all(_)
extend_all(d) ==
  IF d = <<>> THEN <<>> ELSE d[1].value \o extend_all(Tail(d))

\* list.index(x): the first position of x, counted from 1
list_index(s, x) ==
  CHOOSE k \in 1..Len(s) : s[k] = x /\ \A j \in 1..(k - 1) : s[j] # x

\* the order of Python strings, on sequences of the tokens below
Alphabet == <<"a", "b">>

Rank(token) == CHOOSE k \in 1..Len(Alphabet) : Alphabet[k] = token

RECURSIVE str_lt(_, _)
str_lt(x, y) ==
  IF y = <<>> THEN FALSE
  ELSE IF x = <<>> THEN TRUE
  ELSE IF Rank(x[1]) # Rank(y[1]) THEN Rank(x[1]) < Rank(y[1])
  ELSE str_lt(Tail(x), Tail(y))

\* sorted(keys) of distinct strings
RECURSIVE sorted(_)
sorted(keys) ==
  IF keys = <<>> THEN <<>>
  ELSE LET least == CHOOSE x \in Range(keys) :
                      \A y \in Range(keys) \ {x} : str_lt(x, y)
       IN <<least>> \o sorted(SelectSeq(keys, LAMBDA y : y # least))

\* list(zip(left, right))
zip(left, right) == [k \in 1..Len(left) |-> <<left[k], right[k]>>]

(***************************************************************************)
(* ImageImageDataLoader.get_batch_of_images_given_signature_vectors and    *)
(* ImageImageSignatureVector.to_path: the frame of a call.                 *)
(***************************************************************************)
LoaderFrame(call, args) ==
  [call |-> call, pc |-> "scan", args |-> args, fs_at_start |-> fs,
   k |-> 0, left_paths |-> <<>>, right_paths |-> <<>>,
   all_to_render_by_scene |-> <<>>, all_output_paths_by_scene |-> <<>>,
   all_signature_vectors |-> <<>>, all_output_paths |-> <<>>,
   already_completed_tasks |-> {},
   list_of_all_tasks |-> <<>>, completed_tasks |-> {}, i |-> 0,
   outcome |-> None]

\* the frame of a worker that is in no data-loader call
NoLoader == [pc |-> "idle"]

LoaderReturned(frame, value) ==
  [frame EXCEPT !.pc = "returned",
                !.outcome = Some([raised |-> FALSE, value |-> value])]

LoaderRaised(frame, error) ==
  [frame EXCEPT !.pc = "raised",
                !.outcome = Some([raised |-> TRUE, error |-> error])]

\* scan_one without the os.path.exists test
scan_one_no_exists(frame, exists) ==
  LET pair == frame.args.signature_vectors[(frame.k \div 2) + 1]
      left == frame.k % 2 = 0
      sv == IF left THEN pair[1] ELSE pair[2]
      appended == IF left
                  THEN [frame EXCEPT
                          !.left_paths = Append(@, compute_path(pair[1])),
                          !.right_paths = Append(@, compute_path(pair[2]))]
                  ELSE frame
  IN [appended EXCEPT
        !.k = @ + 1,
        !.all_to_render_by_scene =
           setdefault_append(@, get_scene_id(sv), sv),
        !.all_output_paths_by_scene =
           setdefault_append(@, get_scene_id(sv), compute_path(sv))]

\* the body of `for sv, p in (...)` for the k-th vector of the batch, with
\* the path computation and the appends that go before the left vector
scan_one(frame, exists) ==
  LET pair == frame.args.signature_vectors[(frame.k \div 2) + 1]
      left == frame.k % 2 = 0
      sv == IF left THEN pair[1] ELSE pair[2]
      p == compute_path(sv)
      scene_id == get_scene_id(sv)
      appended == IF left
                  THEN [frame EXCEPT
                          !.left_paths = Append(@, compute_path(pair[1])),
                          !.right_paths = Append(@, compute_path(pair[2]))]
                  ELSE frame
  IN IF p \in exists THEN [appended EXCEPT !.k = @ + 1]
     ELSE [appended EXCEPT
             !.k = @ + 1,
             !.all_to_render_by_scene = setdefault_append(@, scene_id, sv),
             !.all_output_paths_by_scene = setdefault_append(@, scene_id, p)]

\* individual_helper with every path taken to be completed
individual_helper_all_completed(frame) ==
  [frame EXCEPT !.pc = "loop",
                !.list_of_all_tasks = frame.all_output_paths,
                !.completed_tasks = Range(frame.all_output_paths), !.i = 0]

\* the ConcurrentTasksHelper of the 'individual' branch
individual_helper(frame) ==
  [frame EXCEPT !.pc = "loop",
                !.list_of_all_tasks = frame.all_output_paths,
                !.completed_tasks = frame.already_completed_tasks, !.i = 0]

\* from the end of the scan to the first statement that reads the disk
after_scan(frame) ==
  IF frame.args.task_method = "split_by_scene"
  THEN [frame EXCEPT !.pc = "loop",
                     !.list_of_all_tasks =
                        sorted(dict_keys(frame.all_to_render_by_scene)),
                     !.completed_tasks = {}, !.i = 0]
  ELSE IF frame.args.task_method = "individual"
  THEN LET lists == [frame EXCEPT
                       !.k = 0,
                       !.all_signature_vectors =
                          extend_all(frame.all_to_render_by_scene),
                       !.all_output_paths =
                          extend_all(frame.all_output_paths_by_scene)]
       IN IF lists.all_output_paths = <<>> THEN individual_helper(lists)
          ELSE [lists EXCEPT !.pc = "completed"]
  ELSE LoaderRaised(frame, "ValueError")

\* one test of `[p for p in all_output_paths if os.path.exists(p)]`
completed_one(frame, exists) ==
  LET p == frame.all_output_paths[frame.k + 1]
      tested == [frame EXCEPT
                   !.k = @ + 1,
                   !.already_completed_tasks =
                      IF p \in exists THEN @ \cup {p} ELSE @]
  IN IF tested.k = Len(frame.all_output_paths) THEN individual_helper(tested)
     ELSE tested

\* the render call of one iteration of the while loop over the task
render_task(frame, task) ==
  IF frame.args.task_method = "split_by_scene"
  THEN do_render_batch_for_scene(
         dict_get(frame.all_to_render_by_scene, task),
         dict_get(frame.all_output_paths_by_scene, task))
  ELSE LET idx == list_index(frame.all_output_paths, task)
       IN do_render(frame.all_signature_vectors[idx], task)

(***************************************************************************)
(* The steps of a data-loader call of worker w.                            *)
(***************************************************************************)
LoaderStepUnchanged ==
  UNCHANGED <<digest, varsDrain, varsLock, varsShell, varsEnum, varsShard,
              varsSample, scenes_dir, tmp_files, request, invocations>>

\* the caller of worker w makes one call after the other; it catches no
\* exception, so the first call that raises is the last
CanCall(w) ==
  /\ Len(finished[w]) < MaxLoaderCalls
  /\ \A c \in 1..Len(finished[w]) : ~finished[w][c].outcome.raised

\* the caller enters get_batch_of_images_given_signature_vectors
GetBatchOfImages(w) ==
  /\ loader[w].pc = "idle"
  /\ render[w].kind = "none"
  /\ CanCall(w)
  /\ LET frame == LoaderFrame("get_batch_of_images_given_signature_vectors",
                              request[w])
     IN loader' = [loader EXCEPT ![w] =
                     IF frame.args.signature_vectors = <<>>
                     THEN after_scan(frame) ELSE frame]
  /\ UNCHANGED <<fs, render, finished>>
  /\ LoaderStepUnchanged

\* one os.path.exists(p) of the scan over the batch
ScanStep(w) ==
  /\ loader[w].pc = "scan"
  /\ LET frame == scan_one(loader[w], fs)
     IN loader' = [loader EXCEPT ![w] =
                     IF frame.k = 2 * Len(frame.args.signature_vectors)
                     THEN after_scan(frame) ELSE frame]
  /\ UNCHANGED <<fs, render, finished>>
  /\ LoaderStepUnchanged

\* one os.path.exists(p) of already_completed_tasks
CompletedStep(w) ==
  /\ loader[w].pc = "completed"
  /\ loader' = [loader EXCEPT ![w] = completed_one(loader[w], fs)]
  /\ UNCHANGED <<fs, render, finished>>
  /\ LoaderStepUnchanged

\* LoopStep with a helper that takes every task to be in the worker's shard
LoopStep_unsharded(w) ==
  /\ loader[w].pc = "loop"
  /\ LET frame == loader[w]
         r == get_next_task(frame.i, frame.list_of_all_tasks,
                            frame.completed_tasks, 0, 1)
         next == [frame EXCEPT !.i = r.i]
     IN IF Truthy(r.task)
        THEN /\ loader' = [loader EXCEPT ![w] =
                             [next EXCEPT !.pc = "rendering"]]
             /\ render' = [render EXCEPT ![w] = render_task(frame, r.task[1])]
        ELSE /\ loader' = [loader EXCEPT ![w] =
                             LoaderReturned(next, zip(frame.left_paths,
                                                      frame.right_paths))]
             /\ UNCHANGED render
  /\ UNCHANGED <<fs, finished>>
  /\ LoaderStepUnchanged

\* the test of the while loop: concurrent_helper.get_next_task(), and the
\* body up to the with statement of the render call
LoopStep(w) ==
  /\ loader[w].pc = "loop"
  /\ LET frame == loader[w]
         r == get_next_task(frame.i, frame.list_of_all_tasks,
                            frame.completed_tasks, frame.args.shard_index,
                            frame.args.shard_count)
         next == [frame EXCEPT !.i = r.i]
     IN IF Truthy(r.task)
        THEN /\ loader' = [loader EXCEPT ![w] =
                             [next EXCEPT !.pc = "rendering"]]
             /\ render' = [render EXCEPT ![w] = render_task(frame, r.task[1])]
        ELSE /\ loader' = [loader EXCEPT ![w] =
                             LoaderReturned(next, zip(frame.left_paths,
                                                      frame.right_paths))]
             /\ UNCHANGED render
  /\ UNCHANGED <<fs, finished>>
  /\ LoaderStepUnchanged

\* ImageImageSignatureVector.to_path up to the with statement of do_render
ToPath(w, self) ==
  /\ loader[w].pc = "idle"
  /\ render[w].kind = "none"
  /\ CanCall(w)
  /\ LET frame == LoaderFrame("to_path", [self |-> self])
         path == to_path_path(self)
     IN IF path \notin fs
        THEN /\ loader' = [loader EXCEPT ![w] =
                             [frame EXCEPT !.pc = "rendering"]]
             /\ render' = [render EXCEPT ![w] = do_render(self, path)]
        ELSE /\ loader' = [loader EXCEPT ![w] = LoaderReturned(frame, path)]
             /\ UNCHANGED render
  /\ UNCHANGED <<fs, finished>>
  /\ LoaderStepUnchanged

\* RenderDone with the exception of the render call swallowed
RenderDone_swallow(w) ==
  /\ loader[w].pc = "rendering"
  /\ render[w].pc = "done"
  /\ loader' = [loader EXCEPT ![w] =
       IF loader[w].call = "to_path"
       THEN LoaderReturned(loader[w], to_path_path(loader[w].args.self))
       ELSE [loader[w] EXCEPT !.pc = "loop"]]
  /\ render' = [render EXCEPT ![w] = NoRender]
  /\ UNCHANGED <<fs, finished>>
  /\ LoaderStepUnchanged

\* the render call is over: its exception propagates, or the caller goes on
RenderDone(w) ==
  /\ loader[w].pc = "rendering"
  /\ render[w].pc = "done"
  /\ LET frame == loader[w]
     IN loader' = [loader EXCEPT ![w] =
          IF render[w].outcome[1].raised
          THEN LoaderRaised(frame, render[w].outcome[1].error)
          ELSE IF frame.call = "to_path"
          THEN LoaderReturned(frame, to_path_path(frame.args.self))
          ELSE [frame EXCEPT !.pc = "loop"]]
  /\ render' = [render EXCEPT ![w] = NoRender]
  /\ UNCHANGED <<fs, finished>>
  /\ LoaderStepUnchanged

\* the call is over: the caller has its value or its exception
Return(w) ==
  /\ loader[w].pc \in {"returned", "raised"}
  /\ finished' = [finished EXCEPT ![w] =
                    Append(@, [call |-> loader[w].call,
                               args |-> loader[w].args,
                               fs_at_start |-> loader[w].fs_at_start,
                               fs_at_end |-> fs,
                               outcome |-> loader[w].outcome[1]])]
  /\ loader' = [loader EXCEPT ![w] = NoLoader]
  /\ UNCHANGED <<fs, render>>
  /\ LoaderStepUnchanged

LoaderStep(w) ==
  \/ ScanStep(w)
  \/ CompletedStep(w)
  \/ LoopStep(w)
  \/ RenderDone(w)
  \/ Return(w)

(***************************************************************************)
(* locked_open, append_line_locked, write_csv_row_locked                   *)
(* (src/concurrent_tasks_helper.py)                                        *)
(*                                                                         *)
(* A row is written to the file object as one string, the line and its     *)
(* terminator; the file object buffers it, and a flush hands the buffer to *)
(* the file piece by piece.  A piece on disk records who wrote it, which   *)
(* row it belongs to, and whether its writer held the lock at that moment. *)
(***************************************************************************)
Writers == {"p1", "p2"}

\* the string one call writes: line + "\n", or the csv row and its terminator
RowPieces(p, k) ==
  <<[writer |-> p, row |-> k, part |-> "line"],
    [writer |-> p, row |-> k, part |-> "eol"]>>

\* a buffered piece as it arrives in the file
OnDisk(piece, p) ==
  [writer |-> piece.writer, row |-> piece.row, part |-> piece.part,
   locked |-> p \in flock_held]

\* the mode a call opens the file with: the two helpers and a caller's
\* appending block pass "a"; locked_open hands any other mode on to open as
\* well, and a caller's `with locked_open(path, "w") as f` passes "w"
ModeOf(kind) == IF kind = "locked_open_write" THEN "w" ELSE "a"

\* the bytes of a hole, which reads as zeros: a write behind the end of the
\* file leaves one between the old end and the place written
Nul == [writer |-> "none", row |-> 0, part |-> "nul", locked |-> FALSE]

\* write(fd, piece) at offset pos of a file opened without O_APPEND
WriteAt(data, pos, piece) ==
  IF pos < Len(data) THEN [data EXCEPT ![pos + 1] = piece]
  ELSE data \o [k \in 1..(pos - Len(data)) |-> Nul] \o <<piece>>

\* the file after process p has written a piece: at the end in mode "a"
\* (O_APPEND), at the offset of its file object in mode "w"
Put(data, p, piece) ==
  IF ModeOf(writer[p].kind) = "a" THEN Append(data, piece)
  ELSE WriteAt(data, writer[p].pos, piece)

\* a process that is in no call: todo is the number of rows it will append,
\* outcomes the result of every call it has made
NoWriter(todo, outcomes) ==
  [pc |-> "idle", kind |-> "none", handle |-> "none", buffer |-> <<>>,
   pos |-> 0, acquired |-> FALSE, body_done |-> FALSE,
   closed_in_body |-> FALSE,
   sync_failed |-> FALSE,
   pending |-> None, todo |-> todo, outcomes |-> outcomes]

\* the call of process p ends: it returns None, or raises what is pending;
\* the outcome also records whether the body had completed and in what state
\* the body left the file object
EndAppend(frame) ==
  NoWriter(frame.todo,
           Append(frame.outcomes,
                  [kind |-> frame.kind, body_done |-> frame.body_done,
                   closed_in_body |-> frame.closed_in_body,
                   handle |-> frame.handle, raised |-> frame.pending # None,
                   error |-> frame.pending]))

LockStepUnchanged ==
  UNCHANGED <<digest, varsDrain, varsShard, varsSample, varsRender, varsShell,
              varsEnum>>

\* append_line_locked(path, line) / write_csv_row_locked(csv_path, row), or
\* a caller's own `with locked_open(path, "a") as f` block that closes f
AppendCall(p, kind) ==
  /\ writer[p].pc = "idle"
  /\ Len(writer[p].outcomes) < writer[p].todo
  /\ writer' = [writer EXCEPT ![p].pc = "open", ![p].kind = kind]
  /\ UNCHANGED <<file_data, durable, flock_held>>
  /\ LockStepUnchanged

\* f = open(path, mode): mode "w" truncates the file to length zero, here,
\* before the try statement and the flock in it; the offset starts at 0
Open(p) ==
  /\ writer[p].pc = "open"
  /\ writer' = [writer EXCEPT ![p].pc = "flock", ![p].handle = "open",
                              ![p].pos = 0]
  /\ IF ModeOf(writer[p].kind) = "w"
     THEN /\ file_data' = <<>>
          /\ durable' = 0
     ELSE UNCHANGED <<file_data, durable>>
  /\ UNCHANGED flock_held
  /\ LockStepUnchanged

\* open raises, before the try statement: the call raises at once
OpenFails(p) ==
  /\ writer[p].pc = "open"
  /\ writer' = [writer EXCEPT
                  ![p] = EndAppend([writer[p] EXCEPT
                                      !.pending = Some("OSError")])]
  /\ UNCHANGED <<file_data, durable, flock_held>>
  /\ LockStepUnchanged

\* fcntl.flock(f, fcntl.LOCK_EX), allowed to return whoever holds the lock
Flock_shared(p) ==
  /\ writer[p].pc = "flock"
  /\ flock_held' = flock_held \cup {p}
  /\ writer' = [writer EXCEPT ![p].pc = "body", ![p].acquired = TRUE]
  /\ UNCHANGED <<file_data, durable>>
  /\ LockStepUnchanged

\* fcntl.flock(f, fcntl.LOCK_EX): blocks until no other process holds the lock
Flock(p) ==
  /\ writer[p].pc = "flock"
  /\ flock_held = {}
  /\ flock_held' = {p}
  /\ writer' = [writer EXCEPT ![p].pc = "body", ![p].acquired = TRUE]
  /\ UNCHANGED <<file_data, durable>>
  /\ LockStepUnchanged

\* fcntl.flock raises: the finally clause runs without the lock
FlockFails(p) ==
  /\ writer[p].pc = "flock"
  /\ writer' = [writer EXCEPT ![p].pc = "flush",
                              ![p].pending = Some("OSError")]
  /\ UNCHANGED <<file_data, durable, flock_held>>
  /\ LockStepUnchanged

\* the body: f.write(line + "\n") / csv.writer(f).writerow(row)
Write(p) ==
  /\ writer[p].pc = "body"
  /\ writer' = [writer EXCEPT
                  ![p].buffer = @ \o RowPieces(p, Len(writer[p].outcomes) + 1),
                  ![p].body_done = writer[p].kind # "locked_open_then_close",
                  ![p].pc = IF writer[p].kind = "locked_open_then_close"
                            THEN "body_close" ELSE "flush"]
  /\ UNCHANGED <<file_data, durable, flock_held>>
  /\ LockStepUnchanged

\* the write in the body raises
WriteFails(p) ==
  /\ writer[p].pc = "body"
  /\ writer' = [writer EXCEPT ![p].pc = "flush",
                              ![p].pending = Some("OSError")]
  /\ UNCHANGED <<file_data, durable, flock_held>>
  /\ LockStepUnchanged

\* a body that closes f itself: close writes the buffer out and gives up the
\* descriptor, and with the descriptor the lock
BodyClose(p) ==
  /\ writer[p].pc = "body_close"
  /\ file_data' = file_data \o
                    [k \in 1..Len(writer[p].buffer) |->
                       OnDisk(writer[p].buffer[k], p)]
  /\ flock_held' = flock_held \ {p}
  /\ writer' = [writer EXCEPT ![p].pc = "flush", ![p].buffer = <<>>,
                              ![p].handle = "closed", ![p].body_done = TRUE,
                              ![p].closed_in_body = TRUE]
  /\ UNCHANGED durable
  /\ LockStepUnchanged

\* finally: f.flush() hands the next piece of the buffer to the file
FlushPiece(p) ==
  /\ writer[p].pc = "flush"
  /\ writer[p].handle = "open"
  /\ writer[p].buffer # <<>>
  /\ file_data' = Put(file_data, p, OnDisk(Head(writer[p].buffer), p))
  /\ writer' = [writer EXCEPT
                  ![p].buffer = Tail(@),
                  ![p].pos = IF ModeOf(writer[p].kind) = "w" THEN @ + 1
                             ELSE @]
  /\ UNCHANGED <<durable, flock_held>>
  /\ LockStepUnchanged

\* f.flush() returns: the buffer is empty
FlushDone(p) ==
  /\ writer[p].pc = "flush"
  /\ writer[p].handle = "open"
  /\ writer[p].buffer = <<>>
  /\ writer' = [writer EXCEPT ![p].pc = "fsync"]
  /\ UNCHANGED <<file_data, durable, flock_held>>
  /\ LockStepUnchanged

\* f.flush() raises with pieces still in the buffer (OSError), or because f is
\* closed (ValueError); `except Exception: pass` goes on to the unlock
FlushFails(p) ==
  /\ writer[p].pc = "flush"
  /\ \/ writer[p].handle = "open" /\ writer[p].buffer # <<>>
     \/ writer[p].handle = "closed"
  /\ writer' = [writer EXCEPT ![p].pc = "unlock",
                              ![p].sync_failed = TRUE]
  /\ UNCHANGED <<file_data, durable, flock_held>>
  /\ LockStepUnchanged

\* os.fsync(f.fileno())
Fsync(p) ==
  /\ writer[p].pc = "fsync"
  /\ durable' = Len(file_data)
  /\ writer' = [writer EXCEPT ![p].pc = "unlock"]
  /\ UNCHANGED <<file_data, flock_held>>
  /\ LockStepUnchanged

\* os.fsync raises; `except Exception: pass`
FsyncFails(p) ==
  /\ writer[p].pc = "fsync"
  /\ writer' = [writer EXCEPT ![p].pc = "unlock",
                              ![p].sync_failed = TRUE]
  /\ UNCHANGED <<file_data, durable, flock_held>>
  /\ LockStepUnchanged

\* fcntl.flock(f, fcntl.LOCK_UN); on a closed f, f.fileno() raises ValueError,
\* which leaves the finally clause in place of whatever was pending
Unlock(p) ==
  /\ writer[p].pc = "unlock"
  /\ IF writer[p].handle = "closed"
     THEN /\ writer' = [writer EXCEPT ![p].pc = "close",
                                      ![p].pending = Some("ValueError")]
          /\ UNCHANGED flock_held
     ELSE /\ writer' = [writer EXCEPT ![p].pc = "close",
                                      ![p].acquired = FALSE]
          /\ flock_held' = flock_held \ {p}
  /\ UNCHANGED <<file_data, durable>>
  /\ LockStepUnchanged

\* f.close() first writes out what a failed flush left in the buffer
CloseFlushPiece(p) ==
  /\ writer[p].pc = "close"
  /\ writer[p].handle = "open"
  /\ writer[p].buffer # <<>>
  /\ file_data' = Put(file_data, p, OnDisk(Head(writer[p].buffer), p))
  /\ writer' = [writer EXCEPT
                  ![p].buffer = Tail(@),
                  ![p].pos = IF ModeOf(writer[p].kind) = "w" THEN @ + 1
                             ELSE @]
  /\ UNCHANGED <<durable, flock_held>>
  /\ LockStepUnchanged

\* f.close() closes the descriptor (a no-op on a closed f), and the call ends
Close(p) ==
  /\ writer[p].pc = "close"
  /\ writer[p].handle = "open" => writer[p].buffer = <<>>
  /\ flock_held' = flock_held \ {p}
  /\ writer' = [writer EXCEPT
                  ![p] = EndAppend([writer[p] EXCEPT !.handle = "closed"])]
  /\ UNCHANGED <<file_data, durable>>
  /\ LockStepUnchanged

\* the flush inside f.close() raises: the descriptor is closed all the same,
\* the rest of the buffer is dropped, and the OSError leaves the call
CloseFails(p) ==
  /\ writer[p].pc = "close"
  /\ writer[p].handle = "open"
  /\ writer[p].buffer # <<>>
  /\ flock_held' = flock_held \ {p}
  /\ writer' = [writer EXCEPT
                  ![p] = EndAppend([writer[p] EXCEPT
                                      !.handle = "closed",
                                      !.pending = Some("OSError")])]
  /\ UNCHANGED <<file_data, durable>>
  /\ LockStepUnchanged

\* one step of an append that meets no error
AppendStep(p) ==
  \/ Open(p)
  \/ Flock(p)
  \/ Write(p)
  \/ FlushPiece(p)
  \/ FlushDone(p)
  \/ Fsync(p)
  \/ Unlock(p)
  \/ Close(p)

\* a step in which a system call or the write of the body raises
AppendFailure(p) ==
  \/ OpenFails(p)
  \/ FlockFails(p)
  \/ WriteFails(p)
  \/ FlushFails(p)
  \/ FsyncFails(p)
  \/ CloseFails(p)

(***************************************************************************)
(* get_slurm_shard_from_env, choose_shard (src/concurrent_tasks_helper.py) *)
(*                                                                         *)
(* The value of an environment variable is None or a string; a string is   *)
(* the sequence of its characters.                                         *)
(***************************************************************************)
DigitChars == <<"0", "1", "2", "3", "4", "5", "6", "7", "8", "9">>

IsDigit(c) == \E d \in 1..Len(DigitChars) : DigitChars[d] = c

DigitValue(c) == (CHOOSE d \in 1..Len(DigitChars) : DigitChars[d] = c) - 1

\* the value of a string of decimal digits
RECURSIVE DigitsValue(_)
DigitsValue(s) ==
  IF s = <<>> THEN 0
  ELSE 10 * DigitsValue(SubSeq(s, 1, Len(s) - 1)) + DigitValue(s[Len(s)])

\* str(n) of a number of one digit, with its sign
IntStr(n) ==
  IF n < 0 THEN <<"-", DigitChars[1 - n]>> ELSE <<DigitChars[n + 1]>>

\* int(s): an optional sign and at least one decimal digit, else ValueError
int(s) ==
  LET digits == IF s # <<>> /\ s[1] \in {"-", "+"} THEN Tail(s) ELSE s
  IN IF digits # <<>> /\ \A k \in 1..Len(digits) : IsDigit(digits[k])
     THEN [ok |-> TRUE,
           value |-> IF s[1] = "-" THEN 0 - DigitsValue(digits)
                     ELSE DigitsValue(digits)]
     ELSE [ok |-> FALSE, error |-> "ValueError"]

\* a // b of Python, b # 0: the quotient rounded towards minus infinity
floordiv(a, b) == IF b > 0 THEN a \div b ELSE (0 - a) \div (0 - b)

\* os.getenv(name) and os.getenv(name, default)
getenv(name) == environ[name]

getenv_default(name, default) ==
  IF environ[name] = None THEN default ELSE environ[name][1]

\* what a call hands back: a (index, count) tuple or an exception
ShardReturn(index, count) ==
  [raised |-> FALSE, index |-> index, count |-> count]

ShardRaise(error) == [raised |-> TRUE, error |-> error]

\* the second try block without the test of the derived index
slurm_bounds_no_range(tid) ==
  LET amin == int(getenv_default("SLURM_ARRAY_TASK_MIN", <<"0">>))
      amax_env == getenv("SLURM_ARRAY_TASK_MAX")
  IN IF ~amin.ok THEN ShardReturn(0, 1)
     ELSE IF amax_env = None THEN ShardReturn(0, 1)
     ELSE LET amax == int(amax_env[1])
              step == int(getenv_default("SLURM_ARRAY_TASK_STEP", <<"1">>))
          IN IF ~amax.ok \/ ~step.ok THEN ShardReturn(0, 1)
             ELSE IF step.value = 0 THEN ShardReturn(0, 1)
             ELSE ShardReturn(floordiv(tid - amin.value, step.value),
                              floordiv(amax.value - amin.value, step.value)
                                + 1)

\* the second try block with the count taken as (amax - amin) // step
slurm_bounds_count_short(tid) ==
  LET amin == int(getenv_default("SLURM_ARRAY_TASK_MIN", <<"0">>))
      amax_env == getenv("SLURM_ARRAY_TASK_MAX")
  IN IF ~amin.ok THEN ShardReturn(0, 1)
     ELSE IF amax_env = None THEN ShardReturn(0, 1)
     ELSE LET amax == int(amax_env[1])
              step == int(getenv_default("SLURM_ARRAY_TASK_STEP", <<"1">>))
          IN IF ~amax.ok \/ ~step.ok THEN ShardReturn(0, 1)
             ELSE IF step.value = 0 THEN ShardReturn(0, 1)
             ELSE LET count == floordiv(amax.value - amin.value, step.value)
                      index == floordiv(tid - amin.value, step.value)
                  IN IF index < 0 \/ index >= count THEN ShardReturn(0, 1)
                     ELSE ShardReturn(index, count)

\* the second try block of get_slurm_shard_from_env, tid being int(task_id)
slurm_bounds(tid) ==
  LET amin == int(getenv_default("SLURM_ARRAY_TASK_MIN", <<"0">>))
      amax_env == getenv("SLURM_ARRAY_TASK_MAX")
  IN IF ~amin.ok THEN ShardReturn(0, 1)
     ELSE IF amax_env = None THEN ShardReturn(0, 1)
     ELSE LET amax == int(amax_env[1])
              step == int(getenv_default("SLURM_ARRAY_TASK_STEP", <<"1">>))
          IN IF ~amax.ok \/ ~step.ok THEN ShardReturn(0, 1)
             ELSE IF step.value = 0 THEN ShardReturn(0, 1)
             ELSE LET count == floordiv(amax.value - amin.value, step.value)
                                 + 1
                      index == floordiv(tid - amin.value, step.value)
                  IN IF index < 0 \/ index >= count THEN ShardReturn(0, 1)
                     ELSE ShardReturn(index, count)

get_slurm_shard_from_env ==
  LET task_id == getenv("SLURM_ARRAY_TASK_ID")
  IN IF task_id = None \/ task_id[1] = <<>> THEN ShardReturn(0, 1)
     ELSE LET tid == int(task_id[1])
          IN IF ~tid.ok THEN ShardReturn(0, 1)
             ELSE slurm_bounds(tid.value)

\* choose_shard(args); `args.shard_count and ...` is false for None and for 0
choose_shard(a) ==
  IF a.shard_count # None /\ a.shard_count[1] # 0 /\ a.shard_count[1] > 1
  THEN IF a.shard_index = None THEN ShardRaise("ValueError")
       ELSE IF ~(0 <= a.shard_index[1] /\ a.shard_index[1] < a.shard_count[1])
       THEN ShardRaise("ValueError")
       ELSE ShardReturn(a.shard_index[1], a.shard_count[1])
  ELSE get_slurm_shard_from_env

ShellStepUnchanged ==
  UNCHANGED <<digest, varsDrain, varsShard, varsSample, varsRender, varsLock,
              varsEnum>>

\* a process calls get_slurm_shard_from_env()
CallGetSlurmShardFromEnv ==
  /\ \A k \in 1..Len(shard_calls) :
       shard_calls[k].call # "get_slurm_shard_from_env"
  /\ shard_calls' = Append(shard_calls,
                           [call |-> "get_slurm_shard_from_env",
                            outcome |-> get_slurm_shard_from_env])
  /\ UNCHANGED <<environ, cli_args>>
  /\ ShellStepUnchanged

\* a process calls choose_shard(args) with its parsed command line
CallChooseShard ==
  /\ \A k \in 1..Len(shard_calls) : shard_calls[k].call # "choose_shard"
  /\ shard_calls' = Append(shard_calls,
                           [call |-> "choose_shard",
                            outcome |-> choose_shard(cli_args)])
  /\ UNCHANGED <<environ, cli_args>>
  /\ ShellStepUnchanged

(***************************************************************************)
(* EnumAttribute._weighted_sample (src/data/signature_vector/attribute.py) *)
(*                                                                         *)
(* A weights mapping is a function from some of the members to numbers;    *)
(* the weights are whole numbers, so that random() * total is compared     *)
(* with the cumulative weights exactly.                                    *)
(***************************************************************************)
\* weights.get(m, 1.0)
weights_get(w, m) == IF m \in DOMAIN w THEN w[m] ELSE 1

\* the weights of the first k members, added up
RECURSIVE cum_weight(_, _)
cum_weight(aligned_weights, k) ==
  IF k = 0 THEN 0
  ELSE cum_weight(aligned_weights, k - 1) + aligned_weights[k]

\* Random.choices(population, weights=..., k=1)[0]:
\*   bisect(cum_weights, random() * total, 0, n - 1), random() being the
\*   stepped state over sixteen
rng_choices(st, population, aligned_weights) ==
  LET n == Len(population)
      total == cum_weight(aligned_weights, n)
      x16 == RngStep(st) * total
      hit == {i \in 1..(n - 1) : 16 * cum_weight(aligned_weights, i) > x16}
  IN IF total <= 0 THEN Raise("ValueError", st)
     ELSE [ok |-> TRUE,
           value |-> population[IF hit = {} THEN n
                                ELSE CHOOSE i \in hit : \A j \in hit : i <= j],
           state |-> RngStep(st)]

\* _weighted_sample without the test for weights that are all zero, the
\* first member standing in when nothing can be drawn
weighted_sample_default_member(st, w) ==
  IF members = <<>> THEN Raise("ValueError", st)
  ELSE IF w = None \/ DOMAIN w[1] = {}
  THEN LET r == rng_choice(st, members)
       IN [ok |-> TRUE, value |-> r.value, state |-> r.state]
  ELSE LET aligned_weights ==
             [k \in 1..Len(members) |-> weights_get(w[1], members[k])]
       IN IF \E k \in 1..Len(members) : aligned_weights[k] < 0
          THEN Raise("ValueError", st)
          ELSE IF \A k \in 1..Len(members) : aligned_weights[k] = 0
          THEN [ok |-> TRUE, value |-> members[1], state |-> st]
          ELSE rng_choices(st, members, aligned_weights)

\* cls._weighted_sample(rng, weights), members being list(cls)
weighted_sample(st, w) ==
  IF members = <<>> THEN Raise("ValueError", st)
  ELSE IF w = None \/ DOMAIN w[1] = {}
  THEN LET r == rng_choice(st, members)
       IN [ok |-> TRUE, value |-> r.value, state |-> r.state]
  ELSE LET aligned_weights ==
             [k \in 1..Len(members) |-> weights_get(w[1], members[k])]
       IN IF \E k \in 1..Len(members) : aligned_weights[k] < 0
          THEN Raise("ValueError", st)
          ELSE IF \A k \in 1..Len(members) : aligned_weights[k] = 0
          THEN Raise("ValueError", st)
          ELSE rng_choices(st, members, aligned_weights)

\* a caller samples once more from the enum, with the same generator
WeightedSample ==
  /\ Len(sampled) < MaxEnumSamples
  /\ LET r == weighted_sample(rng["r1"], weights)
     IN /\ sampled' = Append(sampled,
                             IF r.ok THEN [ok |-> TRUE, value |-> r.value]
                             ELSE [ok |-> FALSE, error |-> r.error])
        /\ rng' = [rng EXCEPT !["r1"] = r.state]
  /\ UNCHANGED <<members, weights>>
  /\ UNCHANGED <<digest, varsDrain, varsShard, varsRender, varsLock, varsShell,
                 available_scenes, available_hdris,
                 variant_attributes_and_freedom,
                 invariant_attributes_and_freedom, factory, produced,
                 batch_calls>>

(***************************************************************************)
(* BlenderManager.open_blender_file_with_args (src/blender_manager.py).    *)
(* The child writes its lines to the pipes of stdout and stderr in the     *)
(* order of its script; a write blocks while the buffer of its pipe is     *)
(* full.  A pipe is at end of file when it is empty and the child, the     *)
(* only holder of its write end, has exited.                               *)
(***************************************************************************)
Streams == {"stdout", "stderr"}

\* the frame of a call whose child is to write script and exit with code
BlenderFrame(script, code) ==
  [pc |-> "popen", child |-> "none", script |-> script, written |-> 0,
   code |-> code, pipe |-> [stream \in Streams |-> 0],
   thread |-> [stream \in Streams |-> "unstarted"],
   return_code |-> None, outcome |-> None]

DrainStepUnchanged == UNCHANGED <<digest, varsShard, varsSample, varsRender,
                                  varsLock, varsShell, varsEnum>>

\* subprocess.Popen(..., stdout=PIPE, stderr=PIPE): the child runs
Popen ==
  /\ blender.pc = "popen"
  /\ blender' = [blender EXCEPT !.pc = "start_stdout", !.child = "running"]
  /\ DrainStepUnchanged

\* subprocess.Popen raises: there is no child and no thread
PopenFails ==
  /\ blender.pc = "popen"
  /\ blender' = [blender EXCEPT
                   !.pc = "done",
                   !.outcome = Some([raised |-> TRUE, error |-> "OSError"])]
  /\ DrainStepUnchanged

\* StartThread that goes on without starting the thread
StartThread_not_started(stream) ==
  /\ blender.pc = IF stream = "stdout" THEN "start_stdout" ELSE "start_stderr"
  /\ blender' = [blender EXCEPT
                   !.pc = IF stream = "stdout" THEN "start_stderr"
                          ELSE "wait"]
  /\ DrainStepUnchanged

\* stdout_thread.start(), then stderr_thread.start()
StartThread(stream) ==
  /\ blender.pc = IF stream = "stdout" THEN "start_stdout" ELSE "start_stderr"
  /\ blender' = [blender EXCEPT
                   !.pc = IF stream = "stdout" THEN "start_stderr"
                          ELSE "wait",
                   !.thread[stream] = "reading"]
  /\ DrainStepUnchanged

\* the child writes its next line; it is blocked while the pipe is full
ChildWrite ==
  /\ blender.child = "running"
  /\ blender.written < Len(blender.script)
  /\ LET stream == blender.script[blender.written + 1]
     IN /\ blender.pipe[stream] < PipeCap
        /\ blender' = [blender EXCEPT !.written = @ + 1,
                                      !.pipe[stream] = @ + 1]
  /\ DrainStepUnchanged

\* the child has written all its lines and exits: its ends of the pipes are
\* closed
ChildExit ==
  /\ blender.child = "running"
  /\ blender.written = Len(blender.script)
  /\ blender' = [blender EXCEPT !.child = "exited"]
  /\ DrainStepUnchanged

\* return_code = proc.wait(timeout=None) returns once the child has exited
ProcWait ==
  /\ blender.pc = "wait"
  /\ blender.child = "exited"
  /\ blender' = [blender EXCEPT !.pc = "join_stdout",
                                !.return_code = Some(blender.code)]
  /\ DrainStepUnchanged

\* stream_output: pipe.readline() returns a line, which is printed
StreamOutputLine(stream) ==
  /\ blender.thread[stream] = "reading"
  /\ blender.pipe[stream] > 0
  /\ blender' = [blender EXCEPT !.pipe[stream] = @ - 1]
  /\ DrainStepUnchanged

\* stream_output: pipe.readline() returns '' at end of file; pipe.close()
StreamOutputEOF(stream) ==
  /\ blender.thread[stream] = "reading"
  /\ blender.pipe[stream] = 0
  /\ blender.child = "exited"
  /\ blender' = [blender EXCEPT !.thread[stream] = "finished"]
  /\ DrainStepUnchanged

\* stdout_thread.join(), then stderr_thread.join()
Join(stream) ==
  /\ blender.pc = IF stream = "stdout" THEN "join_stdout" ELSE "join_stderr"
  /\ blender.thread[stream] = "finished"
  /\ blender' = [blender EXCEPT
                   !.pc = IF stream = "stdout" THEN "join_stderr"
                          ELSE "return"]
  /\ DrainStepUnchanged

\* return return_code
DrainReturn ==
  /\ blender.pc = "return"
  /\ blender' = [blender EXCEPT
                   !.pc = "done",
                   !.outcome = Some([raised |-> FALSE,
                                     value |-> blender.return_code[1]])]
  /\ DrainStepUnchanged

\* the steps of the calling thread, of the child and of a drain thread
ParentStep ==
  \/ Popen
  \/ \E stream \in Streams : StartThread(stream)
  \/ ProcWait
  \/ \E stream \in Streams : Join(stream)
  \/ DrainReturn

ChildStep == ChildWrite \/ ChildExit

DrainThreadStep(stream) == StreamOutputLine(stream) \/ StreamOutputEOF(stream)

(***************************************************************************)
(* The values of each group of variables while a specification that does   *)
(* not use the group runs.                                                 *)
(***************************************************************************)
IdleShard ==
  /\ list_of_all_tasks = <<>>
  /\ completed_tasks = {}
  /\ total_workers = 0
  /\ helper_i = <<>>
  /\ returned = <<>>
  /\ yieldedAt = <<>>

IdleSample ==
  /\ available_scenes = <<>>
  /\ available_hdris = <<>>
  /\ rng = <<>>
  /\ variant_attributes_and_freedom = <<>>
  /\ invariant_attributes_and_freedom = <<>>
  /\ factory = <<>>
  /\ produced = <<>>
  /\ batch_calls = <<>>

IdleDrain == blender = <<>>

IdleLock ==
  /\ file_data = <<>>
  /\ durable = 0
  /\ flock_held = {}
  /\ writer = <<>>

IdleShell ==
  /\ environ = <<>>
  /\ cli_args = <<>>
  /\ shard_calls = <<>>

IdleEnum ==
  /\ members = <<>>
  /\ weights = <<>>
  /\ sampled = <<>>

IdleRender ==
  /\ fs = {}
  /\ scenes_dir = {}
  /\ tmp_files = <<>>
  /\ request = <<>>
  /\ loader = <<>>
  /\ render = <<>>
  /\ invocations = <<>>
  /\ finished = <<>>

(***************************************************************************)
(* Asset stores: directory listings, in the order os.listdir gives them.   *)
(* A scene file name is its stem followed by the ".blend" suffix.          *)
(***************************************************************************)
SceneA == <<"a", ".blend">>
SceneB == <<"b", ".blend">>
SceneListings == {<<SceneA>>, <<SceneB, SceneA>>}
HdriListings == {<<"h1">>, <<"h1", "h2">>, <<"h2", "h3", "h1">>,
                 <<"h4", "h2", "h1", "h3">>}

(***************************************************************************)
(* Specification SpecFactory: two factories are built from the same slot   *)
(* specification, each from its own generator seeded with the same seed,   *)
(* and sampled in any interleaving.                                        *)
(***************************************************************************)
VariantTypes == {"VirtualLight"}
InvariantTypes == {"SceneID", "CameraSeed"}

InitFactory ==
  /\ available_scenes \in SceneListings
  /\ available_hdris = <<>>
  /\ \E seed \in 0..MaxSeed :
       rng = [r \in {"r1", "r2"} |-> RngSeeded(seed)]
  /\ variant_attributes_and_freedom
       \in SeqsUpTo(VariantTypes \X BOOLEAN, MaxVariantSlots)
  /\ invariant_attributes_and_freedom
       \in SeqsUpTo(InvariantTypes \X BOOLEAN, MaxInvariantSlots)
  /\ factory = [f \in Factories |-> [status |-> "none"]]
  /\ produced = [f \in Factories |-> <<>>]
  /\ batch_calls = <<>>
  /\ digest = <<>>
  /\ IdleDrain
  /\ IdleShard
  /\ IdleRender
  /\ IdleLock
  /\ IdleShell
  /\ IdleEnum

\* SignatureVectorFactory.__init__ with self.rng the generator object r
ConstructWith(f, r) ==
  /\ factory[f].status = "none"
  /\ LET variant == init_slots(variant_attributes_and_freedom, 1,
                               EmptySlots(rng[r]))
         invariant == init_slots(invariant_attributes_and_freedom, 1,
                                 EmptySlots(variant.state))
     IN IF variant.error # None
        THEN /\ factory' = [factory EXCEPT ![f] =
                  [status |-> "raised", error |-> variant.error[1]]]
             /\ rng' = [rng EXCEPT ![r] = variant.state]
        ELSE IF invariant.error # None
        THEN /\ factory' = [factory EXCEPT ![f] =
                  [status |-> "raised", error |-> invariant.error[1]]]
             /\ rng' = [rng EXCEPT ![r] = invariant.state]
        ELSE /\ factory' = [factory EXCEPT ![f] =
                  [status |-> "built",
                   rng |-> r,
                   list_fixed_variant_attributes |-> variant.fixed,
                   free_variant_indices |-> variant.free_indices,
                   free_variant_classes |-> variant.free_classes,
                   list_fixed_invariant_attributes |-> invariant.fixed,
                   free_invariant_indices |-> invariant.free_indices,
                   free_invariant_classes |-> invariant.free_classes]]
             /\ rng' = [rng EXCEPT ![r] = invariant.state]
  /\ UNCHANGED <<digest, varsDrain, varsLock, varsShell, varsEnum,
                 varsShard, varsRender, available_scenes, available_hdris,
                 variant_attributes_and_freedom,
                 invariant_attributes_and_freedom, produced, batch_calls>>

\* SignatureVectorFactory(variant, invariant, rng = the generator RngOf(f))
Construct(f) == ConstructWith(f, RngOf(f))

\* SignatureVectorFactory(variant, invariant): the rng argument left out
ConstructDefault(f) == ConstructWith(f, RngDefault(f))

\* SignatureVectorFactory.sample_signature_vector
SampleSignatureVector(f) ==
  /\ factory[f].status = "built"
  /\ Len(produced[f]) < MaxSamples
  /\ LET self == factory[f]
         variant == resample_slots(self.free_variant_indices,
                      self.free_variant_classes, 1,
                      [attributes |-> self.list_fixed_variant_attributes,
                       state |-> rng[self.rng], error |-> None])
         invariant == resample_slots(self.free_invariant_indices,
                        self.free_invariant_classes, 1,
                        [attributes |-> self.list_fixed_invariant_attributes,
                         state |-> variant.state, error |-> None])
     IN IF variant.error # None
        THEN /\ produced' = [produced EXCEPT ![f] =
                  Append(@, [raised |-> TRUE, error |-> variant.error[1]])]
             /\ rng' = [rng EXCEPT ![self.rng] = variant.state]
        ELSE IF invariant.error # None
        THEN /\ produced' = [produced EXCEPT ![f] =
                  Append(@, [raised |-> TRUE, error |-> invariant.error[1]])]
             /\ rng' = [rng EXCEPT ![self.rng] = invariant.state]
        ELSE /\ produced' = [produced EXCEPT ![f] =
                  Append(@, [raised |-> FALSE,
                             variant_attributes |-> variant.attributes,
                             invariant_attributes |-> invariant.attributes])]
             /\ rng' = [rng EXCEPT ![self.rng] = invariant.state]
  /\ UNCHANGED <<digest, varsDrain, varsLock, varsShell, varsEnum,
                 varsShard, varsRender, available_scenes, available_hdris,
                 variant_attributes_and_freedom,
                 invariant_attributes_and_freedom, factory, batch_calls>>

NextFactory ==
  \E f \in Factories : Construct(f) \/ SampleSignatureVector(f)

SpecFactory == InitFactory /\ [][NextFactory]_vars

(***************************************************************************)
(* Specification SpecDefaultRng: two factories are built from the same     *)
(* slot specification without the rng argument and sampled in any          *)
(* interleaving.  The default generator is seeded with 0 at import.        *)
(***************************************************************************)
InitDefaultRng ==
  /\ available_scenes \in SceneListings
  /\ available_hdris = <<>>
  /\ rng = [r \in {"default"} |-> RngSeeded(0)]
  /\ variant_attributes_and_freedom
       \in SeqsUpTo(VariantTypes \X BOOLEAN, MaxVariantSlots)
  /\ invariant_attributes_and_freedom
       \in SeqsUpTo(InvariantTypes \X BOOLEAN, MaxInvariantSlots)
  /\ factory = [f \in Factories |-> [status |-> "none"]]
  /\ produced = [f \in Factories |-> <<>>]
  /\ batch_calls = <<>>
  /\ digest = <<>>
  /\ IdleDrain
  /\ IdleShard
  /\ IdleRender
  /\ IdleLock
  /\ IdleShell
  /\ IdleEnum

NextDefaultRng ==
  \E f \in Factories : ConstructDefault(f) \/ SampleSignatureVector(f)

SpecDefaultRng == InitDefaultRng /\ [][NextDefaultRng]_vars

(***************************************************************************)
(* Specification SpecBatch: an ImageImageDataLoader, built on a seeded     *)
(* generator, is asked for batches of signature vectors.                   *)
(***************************************************************************)
InitBatch ==
  /\ available_scenes \in SceneListings
  /\ available_hdris \in HdriListings
  /\ \E seed \in 0..MaxSeed : rng = [r \in {"loader"} |-> RngSeeded(seed)]
  /\ variant_attributes_and_freedom = <<>>
  /\ invariant_attributes_and_freedom = <<>>
  /\ factory = <<>>
  /\ produced = <<>>
  /\ batch_calls = <<>>
  /\ digest = <<>>
  /\ IdleDrain
  /\ IdleShard
  /\ IdleRender
  /\ IdleLock
  /\ IdleShell
  /\ IdleEnum

GetBatchOfSignatureVectors(batch_size) ==
  /\ Len(batch_calls) < MaxBatchCalls
  /\ LET r == get_batch_of_signature_vectors(rng["loader"], batch_size)
     IN /\ rng' = [rng EXCEPT !["loader"] = r.state]
        /\ batch_calls' = Append(batch_calls,
             IF r.raised
             THEN [batch_size |-> batch_size, raised |-> TRUE, error |-> r.error]
             ELSE [batch_size |-> batch_size, raised |-> FALSE, batch |-> r.batch])
  /\ UNCHANGED <<digest, varsDrain, varsLock, varsShell, varsEnum,
                 varsShard, varsRender, available_scenes, available_hdris,
                 variant_attributes_and_freedom,
                 invariant_attributes_and_freedom, factory, produced>>

NextBatch == \E batch_size \in 0..MaxBatchSize :
               GetBatchOfSignatureVectors(batch_size)

SpecBatch == InitBatch /\ [][NextBatch]_vars

(***************************************************************************)
(* Specification SpecShard: the workers 0..total_workers-1 each own a      *)
(* helper over the same task list and call get_next_task.                  *)
(***************************************************************************)
TaskIds == {<<"t1">>, <<"t2">>}

ShardWorkers == 0..(total_workers - 1)

InitShard ==
  /\ list_of_all_tasks \in SeqsUpTo(TaskIds, MaxTasks)
  /\ completed_tasks \in SUBSET TaskIds
  /\ total_workers \in 1..MaxShards
  /\ digest \in [TaskIds -> 0..(MaxShards - 1)]
  \* ConcurrentTasksHelper.__init__
  /\ helper_i = [w \in ShardWorkers |-> 0]
  /\ returned = [w \in ShardWorkers |-> <<>>]
  /\ yieldedAt = [w \in ShardWorkers |-> <<>>]
  /\ IdleDrain
  /\ IdleSample
  /\ IdleRender
  /\ IdleLock
  /\ IdleShell
  /\ IdleEnum

SawNone(w) == \E k \in 1..Len(returned[w]) : returned[w][k] = None

NonesOf(w) == Count(returned[w], None)

GetNextTask(w) ==
  /\ NonesOf(w) < ExtraCalls + 1
  /\ LET r == get_next_task(helper_i[w], list_of_all_tasks, completed_tasks,
                            w, total_workers)
     IN /\ helper_i' = [helper_i EXCEPT ![w] = r.i]
        /\ returned' = [returned EXCEPT ![w] = Append(@, r.task)]
        /\ yieldedAt' = [yieldedAt EXCEPT ![w] =
                           IF r.task = None THEN @ ELSE Append(@, r.i)]
  /\ UNCHANGED <<digest, varsDrain, varsLock, varsShell, varsEnum,
                 list_of_all_tasks, completed_tasks, total_workers,
               varsSample, varsRender>>

NextShard == \E w \in ShardWorkers : GetNextTask(w)

SpecShard == InitShard /\ [][NextShard]_vars

(***************************************************************************)
(* The signature vectors and the worker of the render specifications.      *)
(***************************************************************************)
SV(name, scene_id) ==
  ImageImageSignatureVector(
    <<HdriAttribute(name, 0)>>,
    <<[type |-> "SceneID", scene_id |-> scene_id],
      [type |-> "CameraSeed", seed |-> 1]>>)

Vectors == {SV("h1", SceneA), SV("h2", SceneA), SV("h1", SceneB)}

RenderWorkers == {"w1"}

(***************************************************************************)
(* Specification SpecRender: a worker calls one of the four entry points   *)
(* that start the render backend, and the call runs to its end; the        *)
(* temporary file cannot be made or written, the backend cannot be         *)
(* started, or it exits with a non-zero code, whenever that can happen.    *)
(***************************************************************************)
InitRender ==
  /\ digest = <<>>
  /\ IdleDrain
  /\ IdleShard
  /\ IdleSample
  /\ IdleLock
  /\ IdleShell
  /\ IdleEnum
  /\ fs = {}
  /\ scenes_dir \in {{SceneA, SceneB}, {SceneA}}
  /\ tmp_files = <<>>
  /\ request = <<>>
  /\ loader = [w \in RenderWorkers |-> NoLoader]
  /\ render = [w \in RenderWorkers |-> NoRender]
  /\ invocations = <<>>
  /\ finished = [w \in RenderWorkers |-> <<>>]

\* the caller enters a render call with the frame its first statements give
DirectCall(w, frame) ==
  /\ loader[w].pc = "idle"
  /\ render[w].kind = "none"
  /\ finished[w] = <<>>
  /\ render' = [render EXCEPT ![w] = frame]
  /\ UNCHANGED <<digest, varsDrain, varsLock, varsShell, varsEnum,
                 varsShard, varsSample, fs, scenes_dir, tmp_files,
                 request, loader, invocations, finished>>

CallDoRender(w, sv) == DirectCall(w, do_render(sv, compute_path(sv)))

CallDoRenderBatchForScene(w, svs, drop) ==
  LET paths == [k \in 1..Len(svs) |-> compute_path(svs[k])]
      output_paths == SubSeq(paths, 1, Len(paths) - drop)
  IN /\ drop <= Len(svs)
     /\ DirectCall(w, do_render_batch_for_scene(svs, output_paths))

CallImageTextInstructDoRender(w, sv) ==
  DirectCall(w, ImageTextInstruct_do_render(sv, compute_path(sv)))

CallOpenBlenderFile(w, sv) ==
  DirectCall(w, open_blender_file_with_args(
                  sv.invariant_attributes[1].scene_id))

\* the call is over: the caller has its value or its exception
DirectReturn(w) ==
  /\ loader[w].pc = "idle"
  /\ render[w].kind # "none"
  /\ render[w].pc = "done"
  /\ finished' = [finished EXCEPT ![w] =
                    Append(@, [call |-> render[w].kind,
                               outcome |-> render[w].outcome[1]])]
  /\ render' = [render EXCEPT ![w] = NoRender]
  /\ UNCHANGED <<digest, varsDrain, varsLock, varsShell, varsEnum,
                 varsShard, varsSample, fs, scenes_dir, tmp_files,
                 request, loader, invocations>>

RenderStep(w) ==
  \/ Mkstemp(w)
  \/ WritePayload(w)
  \/ Spawn(w)
  \/ BackendWrite(w)
  \/ BackendExitZero(w)
  \/ RemovePayload(w)

RenderFailure(w) ==
  \/ MkstempFails(w)
  \/ WritePayloadFails(w)
  \/ SpawnFails(w)
  \/ BackendExitNonZero(w)

NextRender == \E w \in RenderWorkers :
  \/ \E sv \in Vectors : CallDoRender(w, sv)
  \/ \E svs \in SeqsUpTo(Vectors, 2 * MaxPairs), drop \in 0..1 :
       CallDoRenderBatchForScene(w, svs, drop)
  \/ \E sv \in Vectors : CallImageTextInstructDoRender(w, sv)
  \/ \E sv \in Vectors : CallOpenBlenderFile(w, sv)
  \/ RenderStep(w)
  \/ RenderFailure(w)
  \/ DirectReturn(w)

SpecRender == InitRender /\ [][NextRender]_vars

(***************************************************************************)
(* Specification SpecLoader: one worker resolves the same batch with the   *)
(* same arguments again and again; every exists test, every step of a      *)
(* render call and every write of the backend is a step, and a render call *)
(* fails whenever it can.  The hash is chosen for the task ids the call    *)
(* hashes and is 0 elsewhere.                                              *)
(***************************************************************************)
TaskMethods == {"split_by_scene", "individual", "by_hdri"}

Batches == SeqsUpTo(Vectors \X Vectors, MaxPairs)

\* the shard counts tried: to one worker only the set of tasks in its shard
\* matters, and two shards over a free hash give every such set
ShardCounts == {1, 2}

Requests ==
  {[signature_vectors |-> b, shard_index |-> i, shard_count |-> c,
    task_method |-> m] :
     b \in Batches, c \in ShardCounts, i \in {0, 1}, m \in TaskMethods}

VectorsOf(batch) == UNION {{batch[k][1], batch[k][2]} : k \in 1..Len(batch)}

PathsOf(batch) == {compute_path(sv) : sv \in VectorsOf(batch)}

ScenesOf(batch) == {get_scene_id(sv) : sv \in VectorsOf(batch)}

\* the task ids a call with these arguments can hash under one of the
\* methods, on a disk that has the files in existing and loses none: the
\* paths of the batch that are missing, and their scene ids
HashedBy(args, methods, existing) ==
  LET missing == {sv \in VectorsOf(args.signature_vectors) :
                    compute_path(sv) \notin existing}
  IN IF args.shard_count <= 1 THEN {}
     ELSE (IF "split_by_scene" \in methods
           THEN {get_scene_id(sv) : sv \in missing} ELSE {})
          \cup (IF "individual" \in methods
                THEN {compute_path(sv) : sv \in missing} ELSE {})

LoaderTaskIds ==
  {get_scene_id(sv) : sv \in Vectors} \cup {compute_path(sv) : sv \in Vectors}

\* the values sha256 can have, as far as calls with these arguments can tell:
\* free modulo shard_count on the task ids hashed, 0 elsewhere
Digests(args, methods, existing) ==
  {[t \in LoaderTaskIds |-> IF t \in DOMAIN d THEN d[t] ELSE 0] :
     d \in [HashedBy(args, methods, existing) -> 0..(args.shard_count - 1)]}

InitLoaderWith(args) ==
  /\ args.shard_index < args.shard_count
  /\ IdleDrain
  /\ IdleShard
  /\ IdleSample
  /\ IdleLock
  /\ IdleShell
  /\ IdleEnum
  /\ scenes_dir = {SceneA, SceneB}
  /\ tmp_files = <<>>
  /\ request = [w \in RenderWorkers |-> args]
  /\ fs \in SUBSET PathsOf(args.signature_vectors)
  /\ loader = [w \in RenderWorkers |-> NoLoader]
  /\ render = [w \in RenderWorkers |-> NoRender]
  /\ invocations = <<>>
  /\ finished = [w \in RenderWorkers |-> <<>>]

InitLoader == \E args \in Requests :
  /\ InitLoaderWith(args)
  /\ digest \in Digests(args, {args.task_method}, fs)

NextLoader == \E w \in RenderWorkers :
  \/ GetBatchOfImages(w)
  \/ LoaderStep(w)
  \/ RenderStep(w)
  \/ RenderFailure(w)

SpecLoader == InitLoader /\ [][NextLoader]_vars

(***************************************************************************)
(* Specification SpecEquiv: the worker resolves a batch with               *)
(* task_method='split_by_scene', then the files are put back as they were  *)
(* when that call started and the worker resolves the same batch with      *)
(* task_method='individual'.  Every render call succeeds: a call that      *)
(* returns has seen no other.  The hash is chosen for the scene ids and    *)
(* the paths of the batch.                                                 *)
(***************************************************************************)
InitEquiv == \E args \in Requests :
  /\ args.task_method = "split_by_scene"
  /\ InitLoaderWith(args)
  /\ digest \in Digests(args, {"split_by_scene", "individual"}, fs)

\* the same batch is handed to the other strategy, on the files the first
\* call started from
SwitchStrategy(w) ==
  /\ loader[w].pc = "idle"
  /\ render[w].kind = "none"
  /\ Len(finished[w]) = 1
  /\ request[w].task_method = "split_by_scene"
  /\ request' = [request EXCEPT ![w].task_method = "individual"]
  /\ fs' = finished[w][1].fs_at_start
  /\ UNCHANGED <<digest, varsDrain, varsLock, varsShell, varsEnum,
                 varsShard, varsSample, scenes_dir, tmp_files,
                 loader, render, invocations, finished>>

NextEquiv == \E w \in RenderWorkers :
  \/ GetBatchOfImages(w)
  \/ SwitchStrategy(w)
  \/ LoaderStep(w)
  \/ RenderStep(w)

SpecEquiv == InitEquiv /\ [][NextEquiv]_vars

(***************************************************************************)
(* Specification SpecPath: one worker resolves vectors one by one with     *)
(* to_path and a batch with the data loader, in any order; the backend of  *)
(* a render call may exit with a non-zero code.  One of the vectors names  *)
(* its scene without the ".blend" suffix.                                  *)
(***************************************************************************)
PathVectors == {SV("h2", SceneA), SV("h1", <<"a">>)}

InitPath == \E args \in Requests :
  /\ args.shard_count = 1
  /\ args.task_method \in {"split_by_scene", "individual"}
  /\ InitLoaderWith(args)
  /\ digest \in Digests(args, {}, fs)

NextPath == \E w \in RenderWorkers :
  \/ GetBatchOfImages(w)
  \/ \E self \in PathVectors : ToPath(w, self)
  \/ LoaderStep(w)
  \/ RenderStep(w)
  \/ BackendExitNonZero(w)

SpecPath == InitPath /\ [][NextPath]_vars

(***************************************************************************)
(* Specification SpecTeam: as many workers as there are shards, worker k   *)
(* with shard_index k, resolve one batch with the same task_method at the  *)
(* same time; every exists test, every step of a render call and every     *)
(* write of the backend of one worker may fall between two steps of the    *)
(* other.  A backend may exit with a non-zero code.                        *)
(***************************************************************************)
TeamWorkers == {"w1", "w2"}

\* the shard index a worker is launched with
TeamIndex(w) == IF w = "w1" THEN 0 ELSE 1

\* the batches a team resolves: one pair
TeamBatches == {<<pair>> : pair \in Vectors \X Vectors}

\* the workers and their shared disk before any call
InitWorkers(workers, requests) ==
  /\ IdleDrain
  /\ IdleShard
  /\ IdleSample
  /\ IdleLock
  /\ IdleShell
  /\ IdleEnum
  /\ scenes_dir = {SceneA, SceneB}
  /\ tmp_files = <<>>
  /\ request = requests
  /\ loader = [w \in workers |-> NoLoader]
  /\ render = [w \in workers |-> NoRender]
  /\ invocations = <<>>
  /\ finished = [w \in workers |-> <<>>]

InitTeam ==
  \E b \in TeamBatches, m \in {"split_by_scene", "individual"} :
    LET requests ==
          [w \in TeamWorkers |->
             [signature_vectors |-> b, shard_index |-> TeamIndex(w),
              shard_count |-> Cardinality(TeamWorkers), task_method |-> m]]
    IN /\ InitWorkers(TeamWorkers, requests)
       /\ fs \in SUBSET PathsOf(b)
       /\ digest \in Digests(requests["w1"], {m}, fs)

\* a worker that has made no call yet makes its call
FirstCall(w) ==
  /\ finished[w] = <<>>
  /\ GetBatchOfImages(w)

NextTeam == \E w \in TeamWorkers :
  \/ FirstCall(w)
  \/ LoaderStep(w)
  \/ RenderStep(w)
  \/ BackendExitNonZero(w)

SpecTeam == InitTeam /\ [][NextTeam]_vars

(***************************************************************************)
(* Specification SpecOverlap: two workers launched with the same shard     *)
(* index of the same shard count work on the same pair at the same time.   *)
(* Each makes one call: it resolves the pair with the data loader, or one  *)
(* vector of the pair with to_path.  Every step of one worker may fall     *)
(* between two steps of the other; no system call fails and every backend  *)
(* writes its images and exits with code 0.                                *)
(***************************************************************************)
InitOverlap ==
  \E b \in TeamBatches, m \in {"split_by_scene", "individual"},
     c \in ShardCounts, i \in {0, 1} :
    LET requests ==
          [w \in TeamWorkers |->
             [signature_vectors |-> b, shard_index |-> i,
              shard_count |-> c, task_method |-> m]]
    IN /\ i < c
       /\ InitWorkers(TeamWorkers, requests)
       /\ fs \in SUBSET PathsOf(b)
       /\ digest \in Digests(requests["w1"], {m}, fs)

\* a worker that has made no call yet resolves one vector of the pair
FirstToPath(w) ==
  /\ finished[w] = <<>>
  /\ \E self \in VectorsOf(request[w].signature_vectors) : ToPath(w, self)

NextOverlap == \E w \in TeamWorkers :
  \/ FirstCall(w)
  \/ FirstToPath(w)
  \/ LoaderStep(w)
  \/ RenderStep(w)

SpecOverlap == InitOverlap /\ [][NextOverlap]_vars

(***************************************************************************)
(* Specification SpecRestart: one worker resolves a batch and is killed at *)
(* any point of a call, between two tasks or in the middle of one; its     *)
(* backend dies with it.  The worker is then started again with the same   *)
(* arguments: nothing but the files on disk is left of the earlier run.    *)
(* No system call fails and every backend that is left to run writes its   *)
(* images and exits with code 0.                                           *)
(***************************************************************************)
InitRestart == \E args \in Requests :
  /\ args.task_method \in {"split_by_scene", "individual"}
  /\ InitLoaderWith(args)
  /\ digest \in Digests(args, {args.task_method}, fs)

\* the call of this record was cut short by the death of the worker
Killed(record) == "killed" \in DOMAIN record.outcome

\* the process of worker w is killed in the middle of a call, once in a
\* behaviour: the call has no outcome, the helper, its cursor and the lists
\* of the call are gone, the payload files of a running render call stay
\* behind
Kill(w) ==
  /\ loader[w].pc \notin {"idle", "returned", "raised"}
  /\ \A c \in 1..Len(finished[w]) : ~Killed(finished[w][c])
  /\ finished' = [finished EXCEPT ![w] =
                    Append(@, [call |-> loader[w].call,
                               args |-> loader[w].args,
                               fs_at_start |-> loader[w].fs_at_start,
                               fs_at_end |-> fs,
                               outcome |-> [raised |-> FALSE,
                                            killed |-> TRUE]])]
  /\ loader' = [loader EXCEPT ![w] = NoLoader]
  /\ render' = [render EXCEPT ![w] = NoRender]
  /\ UNCHANGED fs
  /\ LoaderStepUnchanged

NextRestart == \E w \in RenderWorkers :
  \/ GetBatchOfImages(w)
  \/ LoaderStep(w)
  \/ RenderStep(w)
  \/ Kill(w)

SpecRestart == InitRestart /\ [][NextRestart]_vars

(***************************************************************************)
(* Specification SpecGroup: one worker resolves batches with               *)
(* task_method='split_by_scene'; before its first batch its caller may     *)
(* call do_render_batch_for_scene directly, with any two vectors and the   *)
(* list of their paths, whole or one short.  A backend may exit with a *)
(* non-zero code.                                                          *)
(***************************************************************************)
InitGroup == \E args \in Requests :
  /\ args.task_method = "split_by_scene"
  /\ InitLoaderWith(args)
  /\ digest \in Digests(args, {"split_by_scene"}, fs)

NextGroup == \E w \in RenderWorkers :
  \/ \E pair \in Vectors \X Vectors, drop \in 0..1 :
       CallDoRenderBatchForScene(w, <<pair[1], pair[2]>>, drop)
  \/ DirectReturn(w)
  \/ GetBatchOfImages(w)
  \/ ScanStep(w)
  \/ LoopStep(w)
  \/ RenderDone(w)
  \/ Return(w)
  \/ RenderStep(w)
  \/ BackendExitNonZero(w)

SpecGroup == InitGroup /\ [][NextGroup]_vars

(***************************************************************************)
(* SpecAppend: two processes append their rows to one file through         *)
(* append_line_locked and write_csv_row_locked, in any interleaving; no    *)
(* system call fails.                                                      *)
(***************************************************************************)
AppendKinds == {"append_line_locked", "write_csv_row_locked"}

InitAppend ==
  /\ digest = <<>>
  /\ IdleDrain
  /\ IdleShard
  /\ IdleSample
  /\ IdleRender
  /\ IdleShell
  /\ IdleEnum
  /\ file_data = <<>>
  /\ durable = 0
  /\ flock_held = {}
  /\ writer \in {[p \in Writers |-> NoWriter(n[p], <<>>)] :
                   n \in [Writers -> 1..MaxRows]}

NextAppend ==
  \E p \in Writers :
    \/ \E kind \in AppendKinds : AppendCall(p, kind)
    \/ AppendStep(p)

SpecAppend == InitAppend /\ [][NextAppend]_vars

(***************************************************************************)
(* SpecLockedOpen: the same processes, with every step of locked_open and  *)
(* of its body allowed to fail, and with callers that use locked_open      *)
(* directly and close the file inside the with block.                      *)
(***************************************************************************)
LockedOpenKinds == AppendKinds \cup {"locked_open_then_close"}

\* each process makes one call
InitLockedOpen ==
  /\ digest = <<>>
  /\ IdleDrain
  /\ IdleShard
  /\ IdleSample
  /\ IdleRender
  /\ IdleShell
  /\ IdleEnum
  /\ file_data = <<>>
  /\ durable = 0
  /\ flock_held = {}
  /\ writer = [p \in Writers |-> NoWriter(1, <<>>)]

NextLockedOpen ==
  \E p \in Writers :
    \/ \E kind \in LockedOpenKinds : AppendCall(p, kind)
    \/ AppendStep(p)
    \/ BodyClose(p)
    \/ CloseFlushPiece(p)
    \/ AppendFailure(p)

SpecLockedOpen == InitLockedOpen /\ [][NextLockedOpen]_vars

(***************************************************************************)
(* SpecWriteMode: two processes use one file through locked_open, each     *)
(* call appending a row through append_line_locked or rewriting the file   *)
(* in a `with locked_open(path, "w")` block; no system call fails.         *)
(***************************************************************************)
WriteModeKinds == {"append_line_locked", "locked_open_write"}

InitWriteMode ==
  /\ digest = <<>>
  /\ IdleDrain
  /\ IdleShard
  /\ IdleSample
  /\ IdleRender
  /\ IdleShell
  /\ IdleEnum
  /\ file_data = <<>>
  /\ durable = 0
  /\ flock_held = {}
  /\ writer \in {[p \in Writers |-> NoWriter(n[p], <<>>)] :
                   n \in [Writers -> 1..MaxRows]}

NextWriteMode ==
  \E p \in Writers :
    \/ \E kind \in WriteModeKinds : AppendCall(p, kind)
    \/ AppendStep(p)

SpecWriteMode == InitWriteMode /\ [][NextWriteMode]_vars

(***************************************************************************)
(* SpecShell: a process starts with some values of the SLURM_ARRAY_TASK_*  *)
(* variables and some shard flags, and asks for its shard.                 *)
(***************************************************************************)
EnvNames == {"SLURM_ARRAY_TASK_ID", "SLURM_ARRAY_TASK_MIN",
             "SLURM_ARRAY_TASK_MAX", "SLURM_ARRAY_TASK_STEP"}

\* unset, empty, not a number, and the numbers from -1 to MaxEnvInt
EnvValues ==
  {None, Some(<<>>), Some(<<"x">>)}
    \cup {Some(IntStr(n)) : n \in (0 - 1)..MaxEnvInt}

\* a shard flag: not given, or an integer
FlagValues == {None} \cup {Some(n) : n \in (0 - 1)..MaxFlag}

InitShell ==
  /\ digest = <<>>
  /\ IdleDrain
  /\ IdleShard
  /\ IdleSample
  /\ IdleRender
  /\ IdleLock
  /\ IdleEnum
  /\ environ \in [EnvNames -> EnvValues]
  /\ cli_args \in [shard_index : FlagValues, shard_count : FlagValues]
  /\ shard_calls = <<>>

NextShell ==
  \/ CallGetSlurmShardFromEnv
  \/ CallChooseShard

SpecShell == InitShell /\ [][NextShell]_vars

(***************************************************************************)
(* SpecEnum: an enum with no member, two or three members; a weights       *)
(* mapping over some of the members, or none; a seeded generator; and a    *)
(* caller that samples several times.                                      *)
(***************************************************************************)
EnumClasses == {<<>>, <<"A", "B">>, <<"A", "B", "C">>}

WeightValues == (0 - 1)..MaxWeight

WeightsOver(ms) ==
  {None} \cup UNION {{Some(w) : w \in [keys -> WeightValues]} :
                       keys \in SUBSET Range(ms)}

InitEnum ==
  /\ digest = <<>>
  /\ IdleDrain
  /\ IdleShard
  /\ IdleRender
  /\ IdleLock
  /\ IdleShell
  /\ available_scenes = <<>>
  /\ available_hdris = <<>>
  /\ variant_attributes_and_freedom = <<>>
  /\ invariant_attributes_and_freedom = <<>>
  /\ factory = <<>>
  /\ produced = <<>>
  /\ batch_calls = <<>>
  /\ \E seed \in 0..MaxSeed : rng = [r \in {"r1"} |-> RngSeeded(seed)]
  /\ members \in EnumClasses
  /\ weights \in WeightsOver(members)
  /\ sampled = <<>>

NextEnum == WeightedSample

SpecEnum == InitEnum /\ [][NextEnum]_vars

(***************************************************************************)
(* Specification SpecDrain: one call of open_blender_file_with_args with a *)
(* child that writes up to MaxLines lines to stdout and stderr in any      *)
(* order and exits with code 0 or 1.  The calling thread, the child and    *)
(* the two drain threads are scheduled fairly: each of them takes its      *)
(* next step if that step stays possible.                                  *)
(***************************************************************************)
ExitCodes == {0, 1}

InitDrain ==
  /\ digest = <<>>
  /\ IdleShard
  /\ IdleSample
  /\ IdleRender
  /\ IdleLock
  /\ IdleShell
  /\ IdleEnum
  /\ \E script \in SeqsUpTo(Streams, MaxLines), code \in ExitCodes :
       blender = BlenderFrame(script, code)

NextDrain ==
  \/ ParentStep
  \/ PopenFails
  \/ ChildStep
  \/ \E stream \in Streams : DrainThreadStep(stream)

SpecDrain ==
  /\ InitDrain
  /\ [][NextDrain]_vars
  /\ WF_vars(ParentStep)
  /\ WF_vars(ChildStep)
  /\ \A stream \in Streams : WF_vars(DrainThreadStep(stream))

(***************************************************************************)
(* Claims about ConcurrentTasksHelper, checked under SpecShard.            *)
(***************************************************************************)
AllExhausted == \A w \in ShardWorkers : SawNone(w)

\* the tasks returned to worker w, without the None results
YieldsOf(w) == SelectSeq(returned[w], LAMBDA o : o # None)

\* the calls, over all workers, that returned list position k
YieldsOfPosition(k) ==
  {<<w, j>> \in ShardWorkers \X (1..MaxTasks + 1) :
     j <= Len(yieldedAt[w]) /\ yieldedAt[w][j] = k}

\* how often task t was returned, over all workers
TimesYielded(t) ==
  Cardinality({<<w, j>> \in ShardWorkers \X (1..MaxTasks + 1) :
                 j <= Len(YieldsOf(w)) /\ YieldsOf(w)[j] = Some(t)})

\* C1 as stated: with an empty completed set, once every worker has drained
\* its helper, every task of the list was returned exactly once in total.
C1_EachTaskOnce ==
  (completed_tasks = {} /\ AllExhausted) =>
    \A t \in Range(list_of_all_tasks) : TimesYielded(t) = 1

\* C1 (amended): with an empty completed set, once every worker has drained
\* its helper, every entry (position) of the task list was returned exactly
\* once, by exactly one worker, as the task at that position; so a task that
\* occurs n times in the list is returned n times, and all its occurrences
\* go to one and the same worker.
C1_EachEntryOnce ==
  (completed_tasks = {} /\ AllExhausted) =>
    /\ \A k \in 1..Len(list_of_all_tasks) :
         /\ Cardinality(YieldsOfPosition(k)) = 1
         /\ \A c \in YieldsOfPosition(k) :
              YieldsOf(c[1])[c[2]] = Some(list_of_all_tasks[k])
    /\ \A t \in Range(list_of_all_tasks) :
         /\ TimesYielded(t) = Count(list_of_all_tasks, t)
         /\ Cardinality({w \in ShardWorkers :
                           Some(t) \in Range(returned[w])}) = 1

\* two workers drained a list of three entries that holds one task twice,
\* and each of them was handed a task
C1_Witness ==
  /\ completed_tasks = {} /\ AllExhausted
  /\ total_workers = 2 /\ Len(list_of_all_tasks) = 3
  /\ Cardinality(Range(list_of_all_tasks)) = 2
  /\ \A w \in ShardWorkers : YieldsOf(w) # <<>>

\* task at list position k is one that worker w's helper hands out
Eligible(w, k) ==
  /\ list_of_all_tasks[k] \notin completed_tasks
  /\ (total_workers <= 1 \/ digest[list_of_all_tasks[k]] % total_workers = w)

C2_Inv ==
  \A w \in ShardWorkers :
    /\ helper_i[w] \in 0..Len(list_of_all_tasks)
    \* tasks come out in list order
    /\ \A j \in 1..Len(yieldedAt[w]) : \A k \in 1..Len(yieldedAt[w]) :
         j < k => yieldedAt[w][j] < yieldedAt[w][k]
    \* at most len(list) calls return a task
    /\ Len(returned[w]) > Len(list_of_all_tasks)
         => returned[w][Len(returned[w])] = None
    \* None is terminal
    /\ \A j \in 1..Len(returned[w]) : \A k \in 1..Len(returned[w]) :
         (j < k /\ returned[w][j] = None) => returned[w][k] = None

C2_Step ==
  \A w \in ShardWorkers :
    /\ helper_i'[w] >= helper_i[w]
    /\ returned'[w] # returned[w] =>
         LET later == {k \in (helper_i[w] + 1)..Len(list_of_all_tasks) :
                         Eligible(w, k)}
             result == returned'[w][Len(returned'[w])]
         IN IF later = {}
            THEN result = None
            ELSE \E k \in later :
                   /\ \A k2 \in later : k <= k2
                   /\ result = Some(list_of_all_tasks[k])
                   /\ helper_i'[w] = k

\* C2: every call of get_next_task returns the first task at or after the
\* cursor that is neither completed nor outside the worker's shard, and None
\* when there is none; tasks come out in list order; a worker gets at most
\* len(list) tasks before None; after None every call returns None; the
\* cursor never decreases and never exceeds the length of the list.
C2_NextTask == [] C2_Inv /\ [][C2_Step]_vars

\* a worker of two skipped the first entry, was handed a later one although
\* some task is completed, and then got None twice
C2_Witness ==
  \E w \in ShardWorkers :
    /\ total_workers = 2 /\ completed_tasks # {}
    /\ yieldedAt[w] # <<>> /\ yieldedAt[w][1] > 1
    /\ NonesOf(w) = 2

HdriNameOf(sv) == sv.variant_attributes[1].name
RotationOf(sv) == sv.variant_attributes[1].z_rotation_offset_from_camera

\* C5: a call with batch_size B, B no larger than the number of HDRIs,
\* results in exactly B (left, right) pairs whose HDRI names are pairwise
\* distinct, whose left vectors all carry one SceneID and CameraSeed, whose
\* right vectors all carry one SceneID and CameraSeed, and in which the two
\* vectors of a pair carry the same HDRI name and rotation offset.
C5_PairedBatch ==
  \A c \in 1..Len(batch_calls) :
    LET call == batch_calls[c]
    IN call.batch_size <= Len(available_hdris) =>
         /\ ~call.raised
         /\ Len(call.batch) = call.batch_size
         /\ \A i \in 1..Len(call.batch) : \A j \in 1..Len(call.batch) :
              /\ i # j => HdriNameOf(call.batch[i][1]) # HdriNameOf(call.batch[j][1])
              /\ call.batch[i][1].invariant_attributes
                   = call.batch[j][1].invariant_attributes
              /\ call.batch[i][2].invariant_attributes
                   = call.batch[j][2].invariant_attributes
         /\ \A i \in 1..Len(call.batch) :
              /\ HdriNameOf(call.batch[i][1]) = HdriNameOf(call.batch[i][2])
              /\ RotationOf(call.batch[i][1]) = RotationOf(call.batch[i][2])

(***************************************************************************)
(* Claims about the render calls, checked under SpecRender.                *)
(***************************************************************************)
\* a call that has ended after its subprocess exited with a non-zero code
EndedNonZero(frame) ==
  /\ frame.kind # "none"
  /\ frame.pc = "done"
  /\ frame.exit_code # None
  /\ frame.exit_code[1] # 0

\* C9: in each of the four entry points that start the render backend
\* (do_render and do_render_batch_for_scene of ImageImageRenderGenerator,
\* do_render of ImageTextInstructRenderGenerator, open_blender_file_with_args
\* of BlenderManager) a non-zero exit code of the subprocess reaches the
\* caller as an error: the call raises, and never returns its output path
\* as after a successful render.  open_blender_file_with_args has no output
\* path; handing the non-zero code itself to the caller is read as reporting
\* the error.
C9_ExitContract ==
  \A w \in DOMAIN render :
    LET frame == render[w]
    IN EndedNonZero(frame) =>
         \/ frame.outcome[1].raised
         \/ /\ frame.kind = "open_blender_file_with_args"
            /\ frame.outcome[1].value = frame.exit_code[1]

\* a temporary payload file that is fully written and closed
PayloadReady(path) ==
  /\ path \in DOMAIN tmp_files
  /\ tmp_files[path].written
  /\ ~tmp_files[path].open

\* C10: in do_render and do_render_batch_for_scene every temporary payload
\* file (one, respectively two) exists, fully written and closed, when the
\* backend subprocess is spawned and for as long as it runs, and none of the
\* files the call made exists once the call has returned or raised.
C10_PayloadLifetime ==
  \A w \in DOMAIN render :
    LET frame == render[w]
    IN frame.kind \in {"do_render", "do_render_batch_for_scene"} =>
         /\ frame.pc \in {"spawn", "running"} =>
              /\ Len(frame.payloads) =
                   (IF frame.kind = "do_render" THEN 1 ELSE 2)
              /\ frame.created = frame.payloads
              /\ \A k \in 1..Len(frame.payloads) :
                   PayloadReady(frame.payloads[k])
         /\ frame.pc = "done" =>
              \A k \in 1..Len(frame.created) :
                frame.created[k] \notin DOMAIN tmp_files

\* a batch call has raised because its second payload file could not be
\* written: both files were made, no subprocess was asked for
C10_Witness ==
  \E w \in DOMAIN render :
    /\ render[w].kind = "do_render_batch_for_scene"
    /\ render[w].pc = "done"
    /\ render[w].outcome[1].raised
    /\ Len(render[w].created) = 2
    /\ invocations = <<>>
    /\ tmp_files = <<>>

(***************************************************************************)
(* Claims about the data loader, checked under SpecLoader.                 *)
(***************************************************************************)
\* the files that existed when call number c of worker w started
FsAtStart(w, c) ==
  IF c <= Len(finished[w]) THEN finished[w][c].fs_at_start
  ELSE loader[w].fs_at_start

\* the subprocesses that call number c of worker w asked for
InvocationsOf(w, c) ==
  {n \in 1..Len(invocations) :
     invocations[n].worker = w /\ invocations[n].call = c}

\* C3: get_batch_of_images_given_signature_vectors asks for no render of an
\* output path that existed when the call started, under any task_method,
\* neither in a subprocess it asked for nor in a render call it is in; and
\* a call that follows a call that returned, with the same arguments and the
\* files that call left, asks for no subprocess at all.
C3_Idempotent ==
  /\ \A n \in 1..Len(invocations) :
       LET inv == invocations[n]
       IN /\ Range(inv.output_paths) \cap FsAtStart(inv.worker, inv.call) = {}
          /\ inv.call > 1 =>
               finished[inv.worker][inv.call - 1].outcome.raised
  /\ \A w \in DOMAIN render :
       render[w].kind # "none" =>
         Range(render[w].output_paths) \cap loader[w].fs_at_start = {}

\* the worker has resolved a batch twice: the first call found a file and
\* rendered another, the second call returned without any subprocess
C3_Witness ==
  \E w \in DOMAIN finished :
    /\ Len(finished[w]) = 2
    /\ ~finished[w][1].outcome.raised
    /\ ~finished[w][2].outcome.raised
    /\ finished[w][1].fs_at_start # {}
    /\ finished[w][2].fs_at_start = finished[w][1].fs_at_end
    /\ InvocationsOf(w, 1) # {}
    /\ InvocationsOf(w, 2) = {}

\* C8: when the subprocess of a do_render_batch_for_scene call exits with a
\* non-zero code, the call raises, get_batch_of_images_given_signature_vectors
\* ends with that CalledProcessError and returns no list, and the call asks
\* for no further subprocess: not for the failed group, not for one of its
\* items, not for a later scene group.
C8_BatchFailure ==
  \A n \in 1..Len(invocations) :
    LET inv == invocations[n]
        w == inv.worker
    IN (inv.kind = "do_render_batch_for_scene" /\ inv.exit_code = Some(1)) =>
         /\ \A m \in InvocationsOf(w, inv.call) : m <= n
         /\ IF inv.call <= Len(finished[w])
            THEN /\ finished[w][inv.call].outcome.raised
                 /\ finished[w][inv.call].outcome.error = "CalledProcessError"
            ELSE /\ loader[w].pc \in {"rendering", "raised"}
                 /\ loader[w].pc = "rendering" =>
                      /\ render[w].invocation = n
                      /\ render[w].pc = "done" =>
                           /\ render[w].outcome[1].raised
                           /\ render[w].outcome[1].error = "CalledProcessError"
                 /\ loader[w].pc = "raised" =>
                      loader[w].outcome[1].error = "CalledProcessError"

\* a call over two scene groups, both to be rendered by this worker, has
\* ended with the error of the first group's subprocess, the only one
C8_Witness ==
  \E w \in DOMAIN finished :
    /\ Len(finished[w]) >= 1
    /\ finished[w][1].args.task_method = "split_by_scene"
    /\ finished[w][1].args.shard_count = 1
    /\ Cardinality(ScenesOf(finished[w][1].args.signature_vectors)) = 2
    /\ finished[w][1].fs_at_start = {}
    /\ finished[w][1].outcome.raised
    /\ InvocationsOf(w, 1) = {1}
    /\ invocations[1].exit_code = Some(1)

(***************************************************************************)
(* Claims about the two strategies, checked under SpecEquiv.               *)
(***************************************************************************)
\* both strategies have resolved the batch, from the same files
BothResolved(w) ==
  /\ Len(finished[w]) = 2
  /\ finished[w][1].args.task_method = "split_by_scene"
  /\ finished[w][2].args.task_method = "individual"
  /\ finished[w][1].fs_at_start = finished[w][2].fs_at_start
  /\ ~finished[w][1].outcome.raised
  /\ ~finished[w][2].outcome.raised

\* the (left path, right path) pairs of a batch, in the order of its pairs
PathPairs(batch) ==
  [k \in 1..Len(batch) |->
     <<compute_path(batch[k][1]), compute_path(batch[k][2])>>]

ResolvedBy(entry) ==
  IF entry.outcome.raised THEN {}
  ELSE IF entry.call = "to_path"
  THEN {<<entry.args.self, entry.outcome.value>>}
  ELSE UNION {{<<entry.args.signature_vectors[k][1],
                 entry.outcome.value[k][1]>>,
               <<entry.args.signature_vectors[k][2],
                 entry.outcome.value[k][2]>>} :
              k \in 1..Len(entry.args.signature_vectors)}

\* every path a call has returned so far, with the vector it is the path of
Resolved ==
  UNION {UNION {ResolvedBy(finished[w][c]) : c \in 1..Len(finished[w])} :
           w \in DOMAIN finished}

\* the field values the path is made of
FieldsOf(sv) ==
  <<get_hdri_name(sv), get_hdri_rotation(sv), get_camera_seed(sv),
    get_scene_id(sv)>>

\* C6: the path a call returned for a vector is the path compute_path and
\* to_path give for it in every later state, whatever has been called,
\* rendered or written since; and two vectors with the same HDRI name,
\* rotation offset, camera seed and scene id have got the same path,
\* whichever of the two functions resolved them.
C6_PathPurity ==
  /\ \A r \in Resolved :
       /\ r[2] = compute_path(r[1])
       /\ r[2] = to_path_path(r[1])
  /\ \A r1, r2 \in Resolved :
       FieldsOf(r1[1]) = FieldsOf(r2[1]) => r1[2] = r2[2]

\* to_path has rendered and returned the path of a vector that names its
\* scene without the suffix, then the loader has resolved a batch with a
\* vector of the same field values that names it with the suffix
C6_Witness ==
  \E w \in DOMAIN finished :
    /\ Len(finished[w]) = 2
    /\ finished[w][1].call = "to_path"
    /\ finished[w][2].call = "get_batch_of_images_given_signature_vectors"
    /\ ~finished[w][1].outcome.raised
    /\ ~finished[w][2].outcome.raised
    /\ InvocationsOf(w, 1) # {}
    /\ finished[w][1].args.self \notin
         VectorsOf(finished[w][2].args.signature_vectors)
    /\ \E sv \in VectorsOf(finished[w][2].args.signature_vectors) :
         FieldsOf(sv) = FieldsOf(finished[w][1].args.self)

(***************************************************************************)
(* Claims about the locked append, checked under SpecAppend.               *)
(***************************************************************************)
\* process p is between its lock acquisition and its lock release
InCriticalSection(p) == writer[p].acquired

\* every process has made all its calls
AllAppended ==
  \A p \in Writers :
    writer[p].pc = "idle" /\ Len(writer[p].outcomes) = writer[p].todo

\* the pieces at positions 2k-1 and 2k of the file are one whole row
WholeRowAt(k) ==
  /\ file_data[2 * k - 1].part = "line"
  /\ file_data[2 * k].part = "eol"
  /\ file_data[2 * k].writer = file_data[2 * k - 1].writer
  /\ file_data[2 * k].row = file_data[2 * k - 1].row

\* C11: while two processes append their rows through append_line_locked and
\* write_csv_row_locked, at most one of them is between lock acquisition and
\* lock release; the file never holds a row cut through by another row; and
\* once both have made all their calls the file holds exactly N1 + N2 rows,
\* each of them one whole row of one writer, no row lost and none twice.
C11_LockedAppend ==
  /\ Cardinality({p \in Writers : InCriticalSection(p)}) <= 1
  /\ \A k \in 1..(Len(file_data) \div 2) : WholeRowAt(k)
  /\ AllAppended =>
       /\ Len(file_data) =
            2 * (writer["p1"].todo + writer["p2"].todo)
       /\ \A p \in Writers : \A r \in 1..writer[p].todo :
            Cardinality({k \in 1..(Len(file_data) \div 2) :
                           /\ file_data[2 * k - 1].writer = p
                           /\ file_data[2 * k - 1].row = r}) = 1

\* both processes have appended all their rows, the rows of the one lying
\* between the rows of the other, and one process has waited for the lock
C11_Witness ==
  /\ AllAppended
  /\ Len(file_data) >= 6
  /\ file_data[1].writer = "p1"
  /\ file_data[3].writer = "p2"
  /\ file_data[5].writer = "p1"

(***************************************************************************)
(* Claims about locked_open, checked under SpecLockedOpen.                 *)
(***************************************************************************)
\* C12: on every exit path of a locked_open block the lock is released and
\* the file closed when the call has ended; no piece of data reaches the file
\* while its writer does not hold the lock, also after a failed flush or
\* fsync; and when neither failed, everything the body wrote is in the file
\* and fsynced at the moment the lock is released.
C12_ReleaseAfterSync ==
  /\ \A p \in DOMAIN writer :
       /\ writer[p].pc = "idle" => p \notin flock_held
       /\ \A c \in 1..Len(writer[p].outcomes) :
            writer[p].outcomes[c].handle # "open"
       /\ (writer[p].pc = "close" /\ writer[p].handle = "open"
             /\ ~writer[p].sync_failed) =>
            /\ writer[p].buffer = <<>>
            /\ \A i \in 1..Len(file_data) :
                 file_data[i].writer = p => i <= durable
  /\ \A i \in 1..Len(file_data) : file_data[i].locked

\* C19 (locked_open): when the body of a locked_open block has completed and
\* has left the file object closed, the flush, unlock and close of the
\* finally clause raise nothing into the caller.
C19_CleanupNotEscalated ==
  \A p \in DOMAIN writer : \A c \in 1..Len(writer[p].outcomes) :
    LET outcome == writer[p].outcomes[c]
    IN (outcome.body_done /\ outcome.closed_in_body) => ~outcome.raised

(***************************************************************************)
(* Claims about the shard selection, checked under SpecShell.              *)
(***************************************************************************)
\* the variable is set to something int() does not accept
Malformed(name) == environ[name] # None /\ ~int(environ[name][1]).ok

\* the number in the variable, or the default when the variable is unset
EnvInt(name, default) ==
  IF environ[name] = None THEN default ELSE int(environ[name][1]).value

\* the values of TASK_ID, MIN, MAX and STEP give no index in [0, count)
NoShardInBounds ==
  LET tid == EnvInt("SLURM_ARRAY_TASK_ID", 0)
      amin == EnvInt("SLURM_ARRAY_TASK_MIN", 0)
      amax == EnvInt("SLURM_ARRAY_TASK_MAX", 0)
      step == EnvInt("SLURM_ARRAY_TASK_STEP", 1)
  IN \/ step = 0
     \/ /\ step # 0
        /\ \/ floordiv(tid - amin, step) < 0
           \/ floordiv(tid - amin, step) >= floordiv(amax - amin, step) + 1

\* the cases in which no sharding is to be assumed
FallsBack ==
  \/ environ["SLURM_ARRAY_TASK_ID"] \in {None, Some(<<>>)}
  \/ \E name \in EnvNames : Malformed(name)
  \/ environ["SLURM_ARRAY_TASK_MAX"] = None
  \/ NoShardInBounds

\* C13: get_slurm_shard_from_env raises for no values of the four
\* SLURM_ARRAY_TASK_* variables (unset, empty, not a number, zero, negative);
\* it returns (0, 1) when TASK_ID is unset, empty or not a number, when MAX
\* is unset, when a bound is malformed, and when the derived index is not in
\* [0, count); what it returns is always an index in [0, count); and
\* choose_shard without shard flags and without the variables returns (0, 1).
C13_ShardFallback ==
  \A k \in 1..Len(shard_calls) :
    LET c == shard_calls[k]
    IN /\ c.call = "get_slurm_shard_from_env" =>
            /\ ~c.outcome.raised
            /\ 0 <= c.outcome.index /\ c.outcome.index < c.outcome.count
            /\ FallsBack => c.outcome = ShardReturn(0, 1)
       /\ (c.call = "choose_shard"
             /\ cli_args.shard_index = None /\ cli_args.shard_count = None
             /\ \A name \in EnvNames : environ[name] = None) =>
            c.outcome = ShardReturn(0, 1)

\* TASK_ID, MIN and MAX are numbers and STEP is "0": the division by zero
\* ends in (0, 1); and a process without shard flags got (0, 1) as well
C13_Witness ==
  /\ environ["SLURM_ARRAY_TASK_ID"] = Some(<<"1">>)
  /\ environ["SLURM_ARRAY_TASK_MIN"] = Some(<<"0">>)
  /\ environ["SLURM_ARRAY_TASK_MAX"] = Some(<<"2">>)
  /\ environ["SLURM_ARRAY_TASK_STEP"] = Some(<<"0">>)
  /\ cli_args.shard_index = None /\ cli_args.shard_count = None
  /\ Len(shard_calls) = 2
  /\ \A k \in 1..2 : shard_calls[k].outcome = ShardReturn(0, 1)

\* the shard flags are a valid explicit shard
ValidFlags ==
  /\ cli_args.shard_index # None
  /\ cli_args.shard_count # None
  /\ 0 <= cli_args.shard_index[1]
  /\ cli_args.shard_index[1] < cli_args.shard_count[1]

\* the shard flags are invalid: only one of the two is given, or the index
\* is not in [0, shard_count)
InvalidFlags ==
  /\ cli_args.shard_index # None \/ cli_args.shard_count # None
  /\ ~ValidFlags

\* C14: choose_shard raises for every invalid combination of shard flags (an
\* index outside [0, shard_count), a shard_count > 1 without an index, an
\* index without a shard_count), and for valid flags it returns exactly
\* (shard_index, shard_count), whatever the SLURM_ARRAY_TASK_* variables are.
C14_ExplicitShard ==
  \A k \in 1..Len(shard_calls) :
    LET c == shard_calls[k]
    IN c.call = "choose_shard" =>
         /\ InvalidFlags => c.outcome.raised
         /\ ValidFlags =>
              c.outcome = ShardReturn(cli_args.shard_index[1],
                                      cli_args.shard_count[1])

\* TASK_ID, MIN and MAX are numbers, STEP is a number or unset, with
\* min <= max and step > 0
ArrayWellFormed ==
  /\ \A name \in EnvNames : ~Malformed(name)
  /\ environ["SLURM_ARRAY_TASK_ID"] # None
  /\ environ["SLURM_ARRAY_TASK_MAX"] # None
  /\ EnvInt("SLURM_ARRAY_TASK_MIN", 0) <= EnvInt("SLURM_ARRAY_TASK_MAX", 0)
  /\ EnvInt("SLURM_ARRAY_TASK_STEP", 1) > 0

\* the number of task ids min, min + step, ... that are not above max
ArrayCount ==
  (EnvInt("SLURM_ARRAY_TASK_MAX", 0) - EnvInt("SLURM_ARRAY_TASK_MIN", 0))
    \div EnvInt("SLURM_ARRAY_TASK_STEP", 1) + 1

\* C28: for min <= max and step > 0, get_slurm_shard_from_env maps the task
\* ids min, min + step, ... up to max one-to-one onto the indices
\* 0 .. count - 1 with count = (max - min) // step + 1 (the k-th id of the
\* array gets index k); and every (index, count) that
\* get_slurm_shard_from_env or choose_shard returns, for any input, has
\* count >= 1 and 0 <= index < count.
C28_ShardArithmetic ==
  \A n \in 1..Len(shard_calls) :
    LET c == shard_calls[n]
    IN /\ ~c.outcome.raised =>
            /\ c.outcome.count >= 1
            /\ 0 <= c.outcome.index
            /\ c.outcome.index < c.outcome.count
       /\ (c.call = "get_slurm_shard_from_env" /\ ArrayWellFormed) =>
            \A k \in 0..(ArrayCount - 1) :
              EnvInt("SLURM_ARRAY_TASK_ID", 0)
                  = EnvInt("SLURM_ARRAY_TASK_MIN", 0)
                      + k * EnvInt("SLURM_ARRAY_TASK_STEP", 1) =>
                c.outcome = ShardReturn(k, ArrayCount)

\* the array 0, 2 (MIN 0, MAX 2, STEP 2): task 2 is shard 1 of 2, from the
\* environment and, without shard flags, from choose_shard
C28_Witness ==
  /\ environ["SLURM_ARRAY_TASK_ID"] = Some(<<"2">>)
  /\ environ["SLURM_ARRAY_TASK_MIN"] = Some(<<"0">>)
  /\ environ["SLURM_ARRAY_TASK_MAX"] = Some(<<"2">>)
  /\ environ["SLURM_ARRAY_TASK_STEP"] = Some(<<"2">>)
  /\ cli_args.shard_count = None
  /\ Len(shard_calls) = 2
  /\ \A n \in 1..2 : shard_calls[n].outcome = ShardReturn(1, 2)

(***************************************************************************)
(* Claims about EnumAttribute._weighted_sample, checked under SpecEnum.    *)
(***************************************************************************)
\* the weight of member m under the mapping: 1 when the mapping is None or
\* empty (uniform sampling) or does not name m
WeightOf(m) ==
  IF weights = None \/ m \notin DOMAIN weights[1] THEN 1 ELSE weights[1][m]

\* the inputs for which nothing can be sampled
InvalidWeights ==
  \/ members = <<>>
  \/ /\ weights # None
     /\ DOMAIN weights[1] # {}
     /\ \/ \E m \in Range(members) : WeightOf(m) < 0
        \/ \A m \in Range(members) : WeightOf(m) = 0

\* C15: _weighted_sample returns no member whose weight is 0, a member the
\* mapping does not name counting with weight 1; it raises, and returns no
\* member, when a weight is negative, when all weights are zero after the
\* defaults are filled in, and when the enum has no member; and for every
\* other input it returns a member.
C15_WeightedSample ==
  \A k \in 1..Len(sampled) :
    IF InvalidWeights THEN ~sampled[k].ok
    ELSE /\ sampled[k].ok
         /\ sampled[k].value \in Range(members)
         /\ WeightOf(sampled[k].value) > 0

\* weights {A: 0, B: 1, C: 0} over the enum {A, B, C}: every sample drawn is
\* B
C15_Witness ==
  /\ members = <<"A", "B", "C">>
  /\ weights = Some([m \in {"A", "B", "C"} |-> IF m = "B" THEN 1 ELSE 0])
  /\ Len(sampled) = MaxEnumSamples
  /\ \A k \in 1..Len(sampled) : sampled[k] = [ok |-> TRUE, value |-> "B"]

(***************************************************************************)
(* Claims about workers that run side by side, checked under SpecTeam.     *)
(***************************************************************************)
\* every worker of the team has made its call, and none has raised
TeamSucceeded ==
  \A w \in DOMAIN finished :
    Len(finished[w]) = 1 /\ ~finished[w][1].outcome.raised

RenderedBy(w, c) ==
  UNION {Range(invocations[n].output_paths) : n \in InvocationsOf(w, c)}

\* the value of a call that returns: the path for to_path, the pairs of
\* paths in the order of the batch for the data loader
ExpectedValue(record) ==
  IF record.call = "to_path" THEN to_path_path(record.args.self)
  ELSE [k \in 1..Len(record.args.signature_vectors) |->
          <<compute_path(record.args.signature_vectors[k][1]),
            compute_path(record.args.signature_vectors[k][2])>>]

\* C17: when two workers are launched with overlapping shards and one of
\* them creates an output path the other had found missing, before, while
\* or after the other renders it, no call raises: each call returns its
\* paths, and every path it asked a backend for exists when it returns.
C17_OverlapTolerated ==
  \A w \in DOMAIN finished : \A c \in 1..Len(finished[w]) :
    /\ ~finished[w][c].outcome.raised
    /\ finished[w][c].outcome.value = ExpectedValue(finished[w][c])
    /\ RenderedBy(w, c) \subseteq finished[w][c].fs_at_end

\* both workers started when the image was missing and both asked a backend
\* for it, one with the data loader and one with to_path: the second
\* backend to write found the file of the first, and both calls returned
C17_Witness ==
  /\ \A w \in DOMAIN finished :
       /\ Len(finished[w]) = 1
       /\ ~finished[w][1].outcome.raised
       /\ finished[w][1].fs_at_start = {}
  /\ finished["w1"][1].call = "get_batch_of_images_given_signature_vectors"
  /\ finished["w2"][1].call = "to_path"
  /\ RenderedBy("w1", 1) \cap RenderedBy("w2", 1) # {}

(***************************************************************************)
(* Claims about a worker that is killed and started again, checked under   *)
(* SpecRestart.                                                            *)
(***************************************************************************)
\* the task id of the image of a vector under a call's task_method
TaskOf(args, sv) ==
  IF args.task_method = "split_by_scene" THEN get_scene_id(sv)
  ELSE compute_path(sv)

\* the output paths of the tasks of the caller's shard that are missing on
\* the disk
ShardMissing(args, disk) ==
  {compute_path(sv) : sv \in
     {v \in VectorsOf(args.signature_vectors) :
        /\ compute_path(v) \notin disk
        /\ in_shard(TaskOf(args, v), args.shard_index, args.shard_count)}}

ReturnedPaths(record) ==
  UNION {{record.outcome.value[k][1], record.outcome.value[k][2]} :
           k \in 1..Len(record.outcome.value)}

\* C20: a call of get_batch_of_images_given_signature_vectors that returns
\* normally for B pairs returns B pairs of paths, and every path returned
\* is the path of a file that exists when the call returns, whatever the
\* task_method, shard_index and shard_count.
C20_ResolvedBatch ==
  \A w \in DOMAIN finished : \A c \in 1..Len(finished[w]) :
    LET record == finished[w][c]
    IN ~record.outcome.raised =>
         /\ Len(record.outcome.value) = Len(record.args.signature_vectors)
         /\ ReturnedPaths(record) \subseteq record.fs_at_end

(***************************************************************************)
(* Claims about the slots of a SignatureVectorFactory, checked under       *)
(* SpecFactory.                                                            *)
(***************************************************************************)
\* the attributes of a tuple have the types the slot specification declares,
\* slot by slot
SlotsTyped(attributes, slots) ==
  /\ Len(attributes) = Len(slots)
  /\ \A k \in 1..Len(slots) : attributes[k].type = slots[k][1]

\* C21: for every slot specification, with fixed and free slots in any
\* positions, every call of sample_signature_vector returns without error a
\* vector whose variant and invariant tuples have the arities of the
\* specification and hold in slot k a value of the type declared for slot k.
C21_SlotTyping ==
  \A f \in Factories : \A n \in 1..Len(produced[f]) :
    /\ ~produced[f][n].raised
    /\ SlotsTyped(produced[f][n].variant_attributes,
                  variant_attributes_and_freedom)
    /\ SlotsTyped(produced[f][n].invariant_attributes,
                  invariant_attributes_and_freedom)

\* the slots of a specification that are fixed, and the number of free ones
FixedSlots(slots) == {k \in 1..Len(slots) : ~slots[k][2]}

NumFree(slots) == Len(slots) - Cardinality(FixedSlots(slots))

\* the state of a generator n draws after st
RECURSIVE RngSteps(_, _)
RngSteps(st, n) == IF n = 0 THEN st ELSE RngSteps(RngStep(st), n - 1)

\* the fixed slots of the vectors factory f has returned hold the values
\* stored at construction
FixedAsStored(f) ==
  \A n \in 1..Len(produced[f]) :
    ~produced[f][n].raised =>
      /\ \A k \in FixedSlots(variant_attributes_and_freedom) :
           produced[f][n].variant_attributes[k]
             = factory[f].list_fixed_variant_attributes[k]
      /\ \A k \in FixedSlots(invariant_attributes_and_freedom) :
           produced[f][n].invariant_attributes[k]
             = factory[f].list_fixed_invariant_attributes[k]

\* a step of factory f: its construction draws once per fixed slot, a call
\* of sample_signature_vector that returns draws once per free slot, and no
\* call changes the fields of the factory
DrawsOfStep(f) ==
  LET frees == NumFree(variant_attributes_and_freedom)
                 + NumFree(invariant_attributes_and_freedom)
      fixeds == Cardinality(FixedSlots(variant_attributes_and_freedom))
                  + Cardinality(FixedSlots(invariant_attributes_and_freedom))
  IN /\ (factory[f].status = "none" /\ factory'[f].status = "built") =>
          rng'[RngOf(f)] = RngSteps(rng[RngOf(f)], fixeds)
     /\ Len(produced'[f]) > Len(produced[f]) =>
          /\ factory' = factory
          /\ ~produced'[f][Len(produced'[f])].raised =>
               rng'[RngOf(f)] = RngSteps(rng[RngOf(f)], frees)
          /\ frees = 0 =>
               /\ ~produced'[f][Len(produced'[f])].raised
               /\ rng' = rng

\* C22: a fixed slot is sampled once, at construction, and holds that value
\* in every vector the factory returns; sample_signature_vector draws from
\* the generator for the free slots only and leaves the stored values as
\* they are; with no free slot every call returns the same vector and
\* leaves the generator as it was.
C22_FixedFrozen ==
  /\ [](\A f \in Factories : FixedAsStored(f))
  /\ [][\A f \in Factories : DrawsOfStep(f)]_vars

\* a factory with a free and a fixed invariant slot has returned two vectors
\* that differ in the free slot and agree in the fixed one
C22_Witness ==
  /\ Len(invariant_attributes_and_freedom) = 2
  /\ invariant_attributes_and_freedom[1][2]
  /\ ~invariant_attributes_and_freedom[2][2]
  /\ Len(produced["f1"]) = 2
  /\ ~produced["f1"][1].raised /\ ~produced["f1"][2].raised
  /\ produced["f1"][1].invariant_attributes[1]
       # produced["f1"][2].invariant_attributes[1]
  /\ produced["f1"][1].invariant_attributes[2]
       = produced["f1"][2].invariant_attributes[2]

\* a light whose four fields are members of LightSize, LightDirection,
\* LightIntensity and BlackbodyLightColor
LightSampled(value) ==
  /\ value.type = "VirtualLight"
  /\ value.light_size \in {"SMALL", "MEDIUM", "LARGE"}
  /\ value.light_direction
       \in {"BACK_RIGHT", "BACK_LEFT", "BACK", "RIGHT", "LEFT", "FRONT_RIGHT",
            "FRONT_LEFT", "FRONT", "TOP", "BOTTOM"}
  /\ value.light_intensity \in {"LOW", "MEDIUM", "HIGH"}
  /\ value.light_color \in {"WARM", "NEUTRAL", "COOL"}

\* C27: VirtualLight.sample_value(rng) returns without error a light whose
\* light_size, light_direction, light_intensity and light_color are members
\* of their enums: a factory with a VirtualLight slot is constructed and
\* sampled without a TypeError, and the slot holds such a light.
C27_CompositeSampling ==
  \A f \in Factories :
    /\ factory[f].status = "raised" => factory[f].error # "TypeError"
    /\ factory[f].status = "built" =>
         \A k \in FixedSlots(variant_attributes_and_freedom) :
           variant_attributes_and_freedom[k][1] = "VirtualLight" =>
             LightSampled(factory[f].list_fixed_variant_attributes[k])
    /\ \A n \in 1..Len(produced[f]) :
         IF produced[f][n].raised THEN produced[f][n].error # "TypeError"
         ELSE \A k \in 1..Len(variant_attributes_and_freedom) :
                variant_attributes_and_freedom[k][1] = "VirtualLight" =>
                  LightSampled(produced[f][n].variant_attributes[k])

\* factory f is constructed or sampled in this step
ActsInStep(f) == factory'[f] # factory[f] \/ produced'[f] # produced[f]

\* C29: two factories constructed without an explicit rng do not share
\* generator state: constructing or sampling one of them leaves the state
\* of the generator the other one draws from as it was.
C29_GeneratorIsolation ==
  [][\A f \in Factories : \A g \in Factories \ {f} :
       (ActsInStep(f) /\ factory[g].status = "built") =>
         rng'[factory[g].rng] = rng[factory[g].rng]]_vars

\* process p is between its open() and its acquisition of the lock, or past
\* the release: it takes a step without holding the lock
StepsUnlocked(p) == writer'[p] # writer[p] /\ p \notin flock_held

\* C30: locked_open changes the shared file only while the exclusive lock
\* is held, in append mode and in write/truncate mode: no step of a process
\* that does not hold the lock adds, removes or truncates a byte of the
\* file, so a process waiting for the lock cannot destroy rows of the lock
\* holder.
C30_ChangesUnderLock ==
  [][\A p \in Writers : StepsUnlocked(p) => file_data' = file_data]_vars

(***************************************************************************)
(* Claims about the grouping of render requests by scene, checked under    *)
(* SpecGroup.                                                              *)
(***************************************************************************)
\* the vectors of a batch in the order of the scan: left, right, pair by pair
RECURSIVE Flatten(_)
Flatten(batch) ==
  IF batch = <<>> THEN <<>>
  ELSE <<batch[1][1], batch[1][2]>> \o Flatten(Tail(batch))

\* the vectors of a scene whose image is missing on the disk, in scan order
MissingOfScene(batch, scene_id, disk) ==
  LET Wanted(sv) == get_scene_id(sv) = scene_id /\ compute_path(sv) \notin disk
  IN SelectSeq(Flatten(batch), Wanted)

\* the scene ids of the caller's shard with an image missing on the disk
ScenesToRender(args, disk) ==
  {get_scene_id(sv) : sv \in
     {v \in VectorsOf(args.signature_vectors) :
        /\ compute_path(v) \notin disk
        /\ in_shard(get_scene_id(v), args.shard_index, args.shard_count)}}

\* the backend invocations of a call are one per scene to render, each with
\* the missing vectors of its scene and their paths, position by position
OnePerScene(w, c) ==
  LET record == finished[w][c]
      batch == record.args.signature_vectors
      scenes == ScenesToRender(record.args, record.fs_at_start)
      SceneOf(n) == get_scene_id(invocations[n].signature_vectors[1])
  IN /\ \A n \in InvocationsOf(w, c) :
          /\ invocations[n].kind = "do_render_batch_for_scene"
          /\ SceneOf(n) \in scenes
          /\ invocations[n].signature_vectors
               = MissingOfScene(batch, SceneOf(n), record.fs_at_start)
          /\ invocations[n].output_paths
               = [k \in 1..Len(invocations[n].signature_vectors) |->
                    compute_path(invocations[n].signature_vectors[k])]
     /\ \A scene_id \in scenes :
          Cardinality({n \in InvocationsOf(w, c) : SceneOf(n) = scene_id}) = 1

C24_SubmittedOnce ==
  \A n, m \in 1..Len(invocations) :
    /\ \A j, k \in 1..Len(invocations[n].output_paths) :
         invocations[n].output_paths[j] = invocations[n].output_paths[k]
           => j = k
    /\ (/\ n # m
        /\ invocations[n].worker = invocations[m].worker
        /\ invocations[n].call = invocations[m].call)
         => Range(invocations[n].output_paths)
              \cap Range(invocations[m].output_paths) = {}

(***************************************************************************)
(* Claims about rewriting an output, checked under SpecOverlap.            *)
(***************************************************************************)
\* the targets of invocation n that are targets of no other invocation and
\* are listed once
TargetedOnce(n) ==
  /\ \A j, k \in 1..Len(invocations[n].output_paths) :
       invocations[n].output_paths[j] = invocations[n].output_paths[k]
         => j = k
  /\ \A m \in 1..Len(invocations) \ {n} :
       Range(invocations[n].output_paths)
         \cap Range(invocations[m].output_paths) = {}

\* a step that starts a backend starts it for paths at which no file exists
StartsOnMissing ==
  Len(invocations') > Len(invocations) =>
    Range(invocations'[Len(invocations')].output_paths) \cap fs = {}

\* C25: across all workers, in any interleaving, an output path is the
\* target of at most one backend invocation, and no backend is started for
\* a path at which a file exists already.
C25_WriteOnce ==
  /\ [](\A n \in 1..Len(invocations) : TargetedOnce(n))
  /\ [][StartsOnMissing]_vars

(***************************************************************************)
(* Claims about open_blender_file_with_args, checked under SpecDrain.      *)
(***************************************************************************)
\* the calling thread is at or past proc.wait()
AtOrPastWait ==
  blender.pc \in {"wait", "join_stdout", "join_stderr", "return", "done"}
    /\ blender.child # "none"

\* the calling thread is at or past the first join
AtOrPastJoin ==
  blender.pc \in {"join_stdout", "join_stderr", "return", "done"}
    /\ blender.child # "none"

\* the call has returned the exit code of the child
ReturnedCode ==
  /\ blender.pc = "done"
  /\ ~blender.outcome[1].raised
  /\ blender.outcome[1].value = blender.code

\* C26: open_blender_file_with_args starts both drain threads before it
\* waits, waits for the child to exit before it joins a drain thread, and
\* returns the exit code only after both drain threads have finished; for a
\* child that writes a finite number of lines to stdout and stderr in any
\* order through bounded pipes and exits, the call eventually returns.
C26_Draining ==
  /\ [](AtOrPastWait =>
          \A stream \in Streams : blender.thread[stream] # "unstarted")
  /\ [](AtOrPastJoin => blender.child = "exited")
  /\ []((blender.pc = "done" /\ blender.child # "none") =>
          /\ ReturnedCode
          /\ \A stream \in Streams : blender.thread[stream] = "finished"
          /\ \A stream \in Streams : blender.pipe[stream] = 0)
  /\ (blender.child = "running") ~> ReturnedCode

\* a child that wrote MaxLines lines to stderr, more than the pipe holds,
\* and exited with code 1: the call has returned 1
C26_Witness ==
  /\ ReturnedCode
  /\ blender.code = 1
  /\ Len(blender.script) = MaxLines
  /\ \A k \in 1..Len(blender.script) : blender.script[k] = "stderr"

=============================================================================
